---- MODULE Spec2Model ----
(***************************************************************************)
(* Access control with three authentication factors (RFID, gestural PIN,   *)
(* gestural pattern) behind an authorization gate: the in-memory           *)
(* repositories, the authorization / authentication / audit services and   *)
(* the orchestrator CasoUsoAcceso.solicitar_acceso of access_mfa/src.      *)
(*                                                                         *)
(* Conventions:                                                            *)
(*  - a datetime is the number of half days since the day before the      *)
(*    first: instant t falls on date (t + 1) \div 2, at hour (t + 1) % 2;  *)
(*    Optional[datetime] None and Optional[date] None are 0;               *)
(*  - a cedula is its tuple of decimal digits;                             *)
(*  - an exception is a pair exc (class name, "" for none) and msg (the    *)
(*    message, a tuple: the fixed text followed by the formatted values);  *)
(*  - uuid4() is a fresh number, different from every id already stored.   *)
(***************************************************************************)
EXTENDS Integers, Sequences, FiniteSets, TLC

\* ------------------------------------------------------------------ bounds
MaxInstante == 4
MaxRegistros == 2
MaxExitos == 1
MaxLen == 3
MaxFallidas == 3
MaxPermisos == 2
MaxIds == 2
MaxTiempos == 2
MaxRelleno == 1

\* ------------------------------------------------------- program constants
max_intentos_rfid == 3
max_intentos_pin == 3
PinLen == 4
PatronLen == 6

Instantes == 1..MaxInstante
\* datetime.date() and datetime.time()
Fecha(t) == (t + 1) \div 2
Hora(t) == (t + 1) % 2
NoPermiso == "None"

Min(a, b) == IF a <= b THEN a ELSE b
Max(a, b) == IF a >= b THEN a ELSE b
Take(s, n) == SubSeq(s, 1, Min(n, Len(s)))

\* ------------------------------------------------------------------ people
U1 == <<1, 7, 1, 0, 0, 3, 4, 0, 6, 5>>
U2 == <<0, 1, 0, 2, 0, 3, 0, 4, 0, 0>>
UX == <<1, 7, 1, 0, 0, 3, 4, 0, 6, 6>>
Cedulas == {U1, U2, UX}

\* validadores._cedula_checksum_ok
coef == <<2, 1, 2, 1, 2, 1, 2, 1, 2>>

Producto(d, c) == IF d * c >= 10 THEN d * c - 9 ELSE d * c

RECURSIVE SumaProductos(_, _)
SumaProductos(cedula, i) ==
    IF i = 0 THEN 0
    ELSE Producto(cedula[i], coef[i]) + SumaProductos(cedula, i - 1)

\* A string is the tuple of its characters. The characters '0' to '9' are
\* the numbers 0 to 9; the others that the model tells apart are a blank, a
\* letter, and the superscript two, which str.isdigit() takes for a digit
\* and int() does not.
Espacio == -1
Letra == -2
SuperDos == 12
Caracteres == 0..9 \cup {Espacio, Letra, SuperDos}

\* ord(ch), str.isdigit() on one character, and whether int() reads it.
ord(ch) ==
    IF ch = Espacio THEN 32 ELSE IF ch = Letra THEN 65
    ELSE IF ch = SuperDos THEN 178 ELSE 48 + ch
EsDigito(ch) == ch \in 0..9 \/ ch = SuperDos
EsDecimal(ch) == ch \in 0..9

\* validadores.guarantee_int
guarantee_int(ch) == ord(ch) - ord(0)

cedula_checksum_ok(cedula) ==
    LET mod == SumaProductos(cedula, 9) % 10
        verif == IF mod = 0 THEN 0 ELSE 10 - mod
    IN  guarantee_int(cedula[10]) = verif

\* str.strip()
RECURSIVE lstrip(_)
lstrip(s) == IF s # <<>> /\ Head(s) = Espacio THEN lstrip(Tail(s)) ELSE s
RECURSIVE rstrip(_)
rstrip(s) ==
    IF s # <<>> /\ s[Len(s)] = Espacio THEN rstrip(SubSeq(s, 1, Len(s) - 1)) ELSE s
strip(s) == rstrip(lstrip(s))

\* validadores.validar_cedula: the exception raised ("" for none) and the
\* string returned, first from the stripped string (lines 74-94). int() of a
\* string with a character that is not a decimal digit raises ValueError.
Rechazo(exc) == [exc |-> exc, ret |-> <<>>]
ValidarRecortada(cedula) ==
    IF cedula = <<>> THEN Rechazo("ValidacionError")
    ELSE IF \E i \in 1..Len(cedula) : ~EsDigito(cedula[i])
    THEN Rechazo("ValidacionError")
    ELSE IF Len(cedula) # 10 THEN Rechazo("ValidacionError")
    ELSE IF ~EsDecimal(cedula[1]) \/ ~EsDecimal(cedula[2])
    THEN Rechazo("ValueError")
    ELSE IF 10 * cedula[1] + cedula[2] < 1 \/ 10 * cedula[1] + cedula[2] > 24
    THEN Rechazo("ValidacionError")
    ELSE IF ~EsDecimal(cedula[3]) THEN Rechazo("ValueError")
    ELSE IF cedula[3] < 0 \/ cedula[3] > 5 THEN Rechazo("ValidacionError")
    ELSE IF \E i \in 1..9 : ~EsDecimal(cedula[i]) THEN Rechazo("ValueError")
    ELSE IF ~cedula_checksum_ok(cedula) THEN Rechazo("ValidacionError")
    ELSE [exc |-> "", ret |-> cedula]

validar_cedula_str(texto) == ValidarRecortada(strip(texto))

\* validadores.validar_cedula as the entities and the audit service use it:
\* TRUE when it returns, FALSE when it raises.
validar_cedula(cedula) == validar_cedula_str(cedula).exc = ""

\* Owner ids that are not valid: UX, with a wrong check digit, and UZ, the
\* cedula of U1 with the superscript two for its first character.
UZ == [U1 EXCEPT ![1] = SuperDos]
CedulasNoValidas == {UX, UZ, <<>>}

\* ------------------------------------------------------------------ state
VARIABLES
    areas,      \* RepoAreas._data: id_area -> AreaAcceso
    permisos,   \* RepoPermisos._data, in insertion order
    creds,      \* RepoRFID._data: serial -> CredencialRFID
    pins,       \* RepoPins._data: <<cedula, id_area>> -> PinGestual
    patrones,   \* RepoPatrones._data: cedula -> PatronGestual
    registros,  \* RepoRegistros._data
    accesos,    \* RepoAccesos._data
    index_cedula,     \* RepoRFID._index_cedula: cedula -> serial
    index_id_pin,     \* RepoPins._index_id_pin: id_pin -> <<cedula, id_area>>
    index_id_patron,  \* RepoPatrones._index_id_patron: id_patron -> cedula
    inv         \* the last call made on the system, its arguments and its outcome

indices == <<index_cedula, index_id_pin, index_id_patron>>

vars == <<areas, permisos, creds, pins, patrones, registros, accesos, indices, inv>>

PinU1 == <<1, 3, 7, 15>>
PatronU1 == <<1, 1, 2, 3, 5, 8>>

AreaIds == {"A1", "A9"}
Seriales == {"R1", "R2", "R9"}

\* ------------------------------------------------------------ repositories
\* A variant of the window that opens after hora_apertura, not at it.
es_accesible_despues_de_abrir(area, t) ==
    IF area.hora_apertura <= area.hora_cierre
    THEN area.hora_apertura < t /\ t <= area.hora_cierre
    ELSE t > area.hora_apertura \/ t <= area.hora_cierre

\* modelos.AreaAcceso.es_accesible_ahora, from the time of day t it takes
\* from ahora: the comparison with the opening window.
es_accesible_a_las(area, t) ==
    IF area.hora_apertura <= area.hora_cierre
    THEN area.hora_apertura <= t /\ t <= area.hora_cierre
    ELSE t >= area.hora_apertura \/ t <= area.hora_cierre

\* modelos.AreaAcceso.es_accesible_ahora
es_accesible_ahora(area, ahora) == es_accesible_a_las(area, Hora(ahora))

\* A variant of es_vigente that does not look at the state.
es_vigente_sin_estado(p, hoy) ==
    IF p.vigente_desde # 0 /\ hoy < p.vigente_desde THEN FALSE
    ELSE IF p.vigente_hasta # 0 /\ hoy > p.vigente_hasta THEN FALSE
    ELSE TRUE

\* modelos.PermisoAcceso.es_vigente
es_vigente(p, hoy) ==
    IF p.estado # "ACTIVO" THEN FALSE
    ELSE IF p.vigente_desde # 0 /\ hoy < p.vigente_desde THEN FALSE
    ELSE IF p.vigente_hasta # 0 /\ hoy > p.vigente_hasta THEN FALSE
    ELSE TRUE

\* repositorios.RepoPermisos.buscar_permiso: the id of the first permission
\* in iteration order that matches, NoPermiso for None.
buscar_permiso(cedula, id_area, hoy) ==
    LET hits == {i \in 1..Len(permisos) :
                    /\ permisos[i].cedula_propietario = cedula
                    /\ permisos[i].id_area = id_area
                    /\ es_vigente(permisos[i], hoy)}
    IN  IF hits = {} THEN NoPermiso
        ELSE permisos[CHOOSE i \in hits : \A j \in hits : i <= j].id_permiso

\* modelos.CredencialRFID.esta_vigente
esta_vigente(cred, hoy) ==
    IF cred.estado \in {"BLOQUEADA", "PERDIDA"} THEN FALSE
    ELSE IF hoy > cred.fecha_expiracion THEN FALSE
    ELSE TRUE

\* A variant of uuid4() that gives the same value at every call.
uuid4_repetido(regs, accs) == 1

\* uuid4(): a value no stored record carries.
uuid4(regs, accs) == Len(regs) + Len(accs) + 1

\* dict[k] = v, and the dict with no key.
Put(f, k, v) == [x \in DOMAIN f \cup {k} |-> IF x = k THEN v ELSE f[x]]
Pop(f, k) == [x \in DOMAIN f \ {k} |-> f[x]]
Vacio == [x \in {} |-> x]

\* A variant of RepoRFID.guardar without the check of the owner's serial.
RepoRFID_guardar_sin_indice(data, index, c) ==
    IF c.serial \in DOMAIN data /\ data[c.serial].cedula_propietario # c.cedula_propietario
    THEN [data |-> data, index |-> index, exc |-> "ValidacionError",
          msg |-> <<"Serial RFID ya esta asignado a Cedula", data[c.serial].cedula_propietario>>]
    ELSE [data |-> Put(data, c.serial, c.credencial),
          index |-> Put(index, c.cedula_propietario, c.serial),
          exc |-> "", msg |-> <<>>]

\* RepoRFID.guardar(c), c a credential with its serial, its owner and the
\* entity stored under the serial.
RepoRFID_guardar(data, index, c) ==
    IF c.serial \in DOMAIN data /\ data[c.serial].cedula_propietario # c.cedula_propietario
    THEN [data |-> data, index |-> index, exc |-> "ValidacionError",
          msg |-> <<"Serial RFID ya esta asignado a Cedula", data[c.serial].cedula_propietario>>]
    ELSE IF c.cedula_propietario \in DOMAIN index /\ index[c.cedula_propietario] # c.serial
    THEN [data |-> data, index |-> index, exc |-> "ValidacionError",
          msg |-> <<"La Cedula ya tiene un RFID asignado", c.cedula_propietario,
                    index[c.cedula_propietario]>>]
    ELSE [data |-> Put(data, c.serial, c.credencial),
          index |-> Put(index, c.cedula_propietario, c.serial),
          exc |-> "", msg |-> <<>>]

\* A variant of RepoPins.guardar that keeps the old id in the index.
RepoPins_guardar_sin_liberar(data, index, p) ==
    IF p.id_pin \in DOMAIN index /\ index[p.id_pin] # p.key
    THEN [data |-> data, index |-> index, exc |-> "ValidacionError",
          msg |-> <<"ID Pin ya esta asignado a Cedula", index[p.id_pin][1],
                    "en Area", index[p.id_pin][2]>>]
    ELSE [data |-> Put(data, p.key, p.pin),
          index |-> Put(index, p.id_pin, p.key),
          exc |-> "", msg |-> <<>>]

\* RepoPins.guardar(p), p a PIN with its id, its key <<cedula, id_area>> and
\* the entity stored under the key.
RepoPins_guardar(data, index, p) ==
    IF p.id_pin \in DOMAIN index /\ index[p.id_pin] # p.key
    THEN [data |-> data, index |-> index, exc |-> "ValidacionError",
          msg |-> <<"ID Pin ya esta asignado a Cedula", index[p.id_pin][1],
                    "en Area", index[p.id_pin][2]>>]
    ELSE LET liberado == IF p.key \in DOMAIN data /\ data[p.key].id_pin # p.id_pin
                         THEN Pop(index, data[p.key].id_pin)
                         ELSE index
         IN  [data |-> Put(data, p.key, p.pin),
              index |-> Put(liberado, p.id_pin, p.key),
              exc |-> "", msg |-> <<>>]

\* RepoPatrones.guardar(p), p a pattern with its id, its owner and the entity
\* stored under the owner.
RepoPatrones_guardar(data, index, p) ==
    IF p.id_patron \in DOMAIN index /\ index[p.id_patron] # p.cedula_propietario
    THEN [data |-> data, index |-> index, exc |-> "ValidacionError",
          msg |-> <<"ID Patron ya esta asignado a Cedula", index[p.id_patron]>>]
    ELSE LET liberado == IF /\ p.cedula_propietario \in DOMAIN data
                            /\ data[p.cedula_propietario].id_patron # p.id_patron
                         THEN Pop(index, data[p.cedula_propietario].id_patron)
                         ELSE index
         IN  [data |-> Put(data, p.cedula_propietario, p.patron),
              index |-> Put(liberado, p.id_patron, p.cedula_propietario),
              exc |-> "", msg |-> <<>>]

\* --------------------------------------------------------------- services
\* A variant that reports an unknown area as an authorization failure.
verificar_area_desconocida_denegada(cedula_propietario, id_area, ahora) ==
    IF id_area \notin DOMAIN areas
    THEN [exc |-> "AutorizacionError",
          msg |-> <<"Area no encontrada", id_area>>, permiso |-> NoPermiso]
    ELSE IF ~es_accesible_ahora(areas[id_area], ahora)
    THEN [exc |-> "AutorizacionError",
          msg |-> <<"Acceso Denegado: fuera de horario permitido.">>,
          permiso |-> NoPermiso]
    ELSE LET permiso == buscar_permiso(cedula_propietario, id_area, Fecha(ahora))
         IN  IF permiso = NoPermiso
             THEN [exc |-> "AutorizacionError",
                   msg |-> <<"Acceso Denegado: el usuario no tiene permiso vigente para esta area.">>,
                   permiso |-> NoPermiso]
             ELSE [exc |-> "", msg |-> <<>>, permiso |-> permiso]

\* ServicioAutorizacion.verificar_permiso_y_horario
verificar_permiso_y_horario(cedula_propietario, id_area, ahora) ==
    IF id_area \notin DOMAIN areas
    THEN [exc |-> "RecursoNoEncontradoError",
          msg |-> <<"Area no encontrada", id_area>>, permiso |-> NoPermiso]
    ELSE IF ~es_accesible_ahora(areas[id_area], ahora)
    THEN [exc |-> "AutorizacionError",
          msg |-> <<"Acceso Denegado: fuera de horario permitido.">>,
          permiso |-> NoPermiso]
    ELSE LET permiso == buscar_permiso(cedula_propietario, id_area, Fecha(ahora))
         IN  IF permiso = NoPermiso
             THEN [exc |-> "AutorizacionError",
                   msg |-> <<"Acceso Denegado: el usuario no tiene permiso vigente para esta area.">>,
                   permiso |-> NoPermiso]
             ELSE [exc |-> "", msg |-> <<>>, permiso |-> permiso]

\* A variant of the owner-mismatch branch that blocks one attempt late.
RfidNoCorrespondeTardio(cred) ==
    LET n == cred.intentos_fallidos + 1
    IN  IF n > max_intentos_rfid
        THEN [cred |-> [cred EXCEPT !.intentos_fallidos = n, !.estado = "BLOQUEADA"],
              exc |-> "AutenticacionError",
              msg |-> <<"RFID bloqueada por demasiados intentos fallidos.">>]
        ELSE [cred |-> [cred EXCEPT !.intentos_fallidos = n],
              exc |-> "AutenticacionError",
              msg |-> <<"RFID no corresponde al usuario.">>]

\* ServicioAutenticacion.validar_rfid, the owner-mismatch branch: the new
\* credential and the exception raised.
RfidNoCorresponde(cred) ==
    LET n == cred.intentos_fallidos + 1
    IN  IF n >= max_intentos_rfid
        THEN [cred |-> [cred EXCEPT !.intentos_fallidos = n, !.estado = "BLOQUEADA"],
              exc |-> "AutenticacionError",
              msg |-> <<"RFID bloqueada por demasiados intentos fallidos.">>]
        ELSE [cred |-> [cred EXCEPT !.intentos_fallidos = n],
              exc |-> "AutenticacionError",
              msg |-> <<"RFID no corresponde al usuario.">>]

\* ServicioAutenticacion.validar_rfid, the not-current branch.
RfidNoVigente(cred, ahora) ==
    LET n == cred.intentos_fallidos + 1
        estado == IF Fecha(ahora) > cred.fecha_expiracion THEN "EXPIRADA" ELSE cred.estado
    IN  IF n >= max_intentos_rfid
        THEN [cred |-> [cred EXCEPT !.intentos_fallidos = n, !.estado = "BLOQUEADA"],
              exc |-> "AutenticacionError",
              msg |-> <<"RFID bloqueada por demasiados intentos fallidos.">>]
        ELSE [cred |-> [cred EXCEPT !.intentos_fallidos = n, !.estado = estado],
              exc |-> "AutenticacionError",
              msg |-> <<"RFID invalida/expirada/bloqueada.">>]

\* A variant of the success tail that keeps the failed attempts.
RfidExitoSinReinicio(cred, ahora) ==
    [cred |-> [cred EXCEPT !.intentos_exitosos = @ + 1,
                           !.ultimo_acceso = ahora],
     exc |-> "", msg |-> <<>>]

\* ServicioAutenticacion.validar_rfid, the success tail.
RfidExito(cred, ahora) ==
    [cred |-> [cred EXCEPT !.intentos_exitosos = @ + 1,
                           !.intentos_fallidos = 0,
                           !.ultimo_acceso = ahora],
     exc |-> "", msg |-> <<>>]

\* A variant of validar_rfid that compares the owner before it looks at the
\* state of the credential.
validar_rfid_propietario_primero(cs, serial, cedula_esperada, ahora) ==
    IF serial \notin DOMAIN cs
    THEN [creds |-> cs, exc |-> "AutenticacionError",
          msg |-> <<"RFID no registrada en el sistema.">>]
    ELSE LET cred == cs[serial]
             r == IF cred.cedula_propietario # cedula_esperada
                  THEN RfidNoCorresponde(cred)
                  ELSE IF cred.estado = "BLOQUEADA"
                  THEN [cred |-> cred, exc |-> "AutenticacionError",
                        msg |-> <<"RFID bloqueada.">>]
                  ELSE IF cred.estado = "PERDIDA"
                  THEN [cred |-> cred, exc |-> "AutenticacionError",
                        msg |-> <<"RFID marcada como perdida.">>]
                  ELSE IF cred.estado = "EXPIRADA"
                  THEN [cred |-> cred, exc |-> "AutenticacionError",
                        msg |-> <<"RFID expirada.">>]
                  ELSE IF ~esta_vigente(cred, Fecha(ahora))
                  THEN RfidNoVigente(cred, ahora)
                  ELSE RfidExito(cred, ahora)
         IN  [creds |-> [cs EXCEPT ![serial] = r.cred], exc |-> r.exc, msg |-> r.msg]

\* ServicioAutenticacion.validar_rfid(serial=, cedula_esperada=, ahora=) on
\* the credential store cs: the store afterwards and the exception raised.
validar_rfid(cs, serial, cedula_esperada, ahora) ==
    IF serial \notin DOMAIN cs
    THEN [creds |-> cs, exc |-> "AutenticacionError",
          msg |-> <<"RFID no registrada en el sistema.">>]
    ELSE LET cred == cs[serial]
             r == IF cred.estado = "BLOQUEADA"
                  THEN [cred |-> cred, exc |-> "AutenticacionError",
                        msg |-> <<"RFID bloqueada.">>]
                  ELSE IF cred.estado = "PERDIDA"
                  THEN [cred |-> cred, exc |-> "AutenticacionError",
                        msg |-> <<"RFID marcada como perdida.">>]
                  ELSE IF cred.estado = "EXPIRADA"
                  THEN [cred |-> cred, exc |-> "AutenticacionError",
                        msg |-> <<"RFID expirada.">>]
                  ELSE IF cred.cedula_propietario # cedula_esperada
                  THEN RfidNoCorresponde(cred)
                  ELSE IF ~esta_vigente(cred, Fecha(ahora))
                  THEN RfidNoVigente(cred, ahora)
                  ELSE RfidExito(cred, ahora)
         IN  [creds |-> [cs EXCEPT ![serial] = r.cred], exc |-> r.exc, msg |-> r.msg]

\* ServicioAutenticacion.validar_pin(id_area=, secuencia_capturada=): its
\* first statement calls RepoPins.obtener_por_area, a method RepoPins does
\* not define (it defines guardar, obtener_por_usuario_area,
\* buscar_por_usuario_area and listar); the AttributeError is not the
\* RecursoNoEncontradoError the try catches, so it leaves the method.
MetodosRepoPins ==
    {"guardar", "obtener_por_usuario_area", "buscar_por_usuario_area", "listar"}

\* ServicioAutenticacion.validar_pin from the PIN found (lines 66-76): the
\* new PIN and the exception raised.
ComprobarPin(pin, secuencia_capturada) ==
    IF pin.estado = "BLOQUEADO"
    THEN [pin |-> pin, exc |-> "AutenticacionError",
          msg |-> <<"PIN gestual bloqueado para esta area.">>]
    ELSE IF secuencia_capturada # pin.secuencia_gestos
    THEN LET n == pin.intentos_fallidos + 1
         IN  [pin |-> [pin EXCEPT !.intentos_fallidos = n,
                                  !.estado = IF n >= max_intentos_pin
                                             THEN "BLOQUEADO" ELSE @],
              exc |-> "AutenticacionError", msg |-> <<"PIN gestual incorrecto.">>]
    ELSE [pin |-> [pin EXCEPT !.intentos_fallidos = 0], exc |-> "", msg |-> <<>>]

validar_pin(ps, id_area, secuencia_capturada) ==
    IF "obtener_por_area" \notin MetodosRepoPins
    THEN [pins |-> ps, exc |-> "AttributeError",
          msg |-> <<"'RepoPins' object has no attribute 'obtener_por_area'">>]
    ELSE LET ks == {k \in DOMAIN ps : k[2] = id_area}
         IN  IF ks = {}
             THEN [pins |-> ps, exc |-> "AutenticacionError",
                   msg |-> <<"No hay PIN gestual configurado para esta area.">>]
             ELSE LET k == CHOOSE x \in ks : TRUE
                      r == ComprobarPin(ps[k], secuencia_capturada)
                  IN  [pins |-> [ps EXCEPT ![k] = r.pin], exc |-> r.exc, msg |-> r.msg]

\* A variant of the count that stops one position short.
CoincidenciasMenosUna(ref, sec) ==
    Cardinality({i \in 1..(Min(Len(ref), Len(sec)) - 1) : ref[i] = sec[i]})

\* ServicioAutenticacion.validar_patron, the similarity score matches / n.
Coincidencias(ref, sec) ==
    Cardinality({i \in 1..Min(Len(ref), Len(sec)) : ref[i] = sec[i]})

\* A variant of validar_patron that also rejects a score equal to the
\* threshold.
validar_patron_umbral_estricto(pats, cedula, secuencia_capturada, tiempos) ==
    IF cedula \notin DOMAIN pats
    THEN [exc |-> "AutenticacionError",
          msg |-> <<"No hay patron gestual enrolado para este usuario.">>,
          matches |-> 0, n |-> 0]
    ELSE IF Len(secuencia_capturada) = 0
    THEN [exc |-> "ValidacionError",
          msg |-> <<"La secuencia capturada del patron esta vacia.">>,
          matches |-> 0, n |-> 0]
    ELSE LET n == Max(Len(pats[cedula].secuencia_gestos), Len(secuencia_capturada))
             matches == Coincidencias(pats[cedula].secuencia_gestos, secuencia_capturada)
         IN  IF 10 * matches <= 9 * n
             THEN [exc |-> "AutenticacionError",
                   msg |-> <<"Patron gestual no coincide", matches, n>>,
                   matches |-> matches, n |-> n]
             ELSE [exc |-> "", msg |-> <<>>, matches |-> matches, n |-> n]

\* A variant of the tolerance test whose two limits are outside the range.
FueraDeToleranciaEstricta(ref, got, timing_tol) ==
    LET low == Max(0, (10 - timing_tol) * ref)
        high == (10 + timing_tol) * ref
    IN  ~(low < 10 * got /\ 10 * got < high)

\* ServicioAutenticacion.validar_patron, lines 115-117: not (low <= got <=
\* high). Intervals are in tenths of a second and timing_tol in tenths, so
\* both sides are taken ten times over.
FueraDeTolerancia(ref, got, timing_tol) ==
    LET low == Max(0, (10 - timing_tol) * ref)
        high == (10 + timing_tol) * ref
    IN  ~(low <= 10 * got /\ 10 * got <= high)

\* An Optional[List[float]] is <<>> for None and <<list>> for a list.
\* ServicioAutenticacion.validar_patron, lines 102-120: TRUE when the timing
\* check raises AutenticacionError.
TiemposFueraDeTolerancia(entorno, tiempos_entre_gestos, tiempos) ==
    /\ entorno.PATRON_TIMING_CHECK = "1"
    /\ tiempos_entre_gestos # <<>>
    /\ tiempos # <<>>
    /\ Len(tiempos_entre_gestos[1]) = Len(tiempos[1])
    /\ \E i \in 1..Len(tiempos[1]) :
          /\ ~(tiempos_entre_gestos[1][i] <= 0)
          /\ FueraDeTolerancia(tiempos_entre_gestos[1][i], tiempos[1][i],
                               entorno.PATRON_TIMING_TOL)

\* os.getenv("PATRON_TIMING_CHECK", "0") and os.getenv("PATRON_TIMING_TOL",
\* "0.8") when the variables are not set.
EntornoPorDefecto == [PATRON_TIMING_CHECK |-> "0", PATRON_TIMING_TOL |-> 8]

\* ServicioAutenticacion.validar_patron(cedula=, secuencia_capturada=,
\* tiempos=) under the environment entorno: the exception raised and the
\* score similitud = matches / n it computed (0 / 0 when it computed none).
\* umbral_similitud_patron is 0.9: the float matches / n is below the float
\* 0.9 exactly when 10 * matches < 9 * n, as 9 / 10 rounds to the same float
\* as the literal and no other quotient of these sizes comes within a
\* rounding error of it.
validar_patron_en(entorno, pats, cedula, secuencia_capturada, tiempos) ==
    IF cedula \notin DOMAIN pats
    THEN [exc |-> "AutenticacionError",
          msg |-> <<"No hay patron gestual enrolado para este usuario.">>,
          matches |-> 0, n |-> 0]
    ELSE IF Len(secuencia_capturada) = 0
    THEN [exc |-> "ValidacionError",
          msg |-> <<"La secuencia capturada del patron esta vacia.">>,
          matches |-> 0, n |-> 0]
    ELSE LET n == Max(Len(pats[cedula].secuencia_gestos), Len(secuencia_capturada))
             matches == Coincidencias(pats[cedula].secuencia_gestos, secuencia_capturada)
         IN  IF 10 * matches < 9 * n
             THEN [exc |-> "AutenticacionError",
                   msg |-> <<"Patron gestual no coincide", matches, n>>,
                   matches |-> matches, n |-> n]
             ELSE IF TiemposFueraDeTolerancia(entorno, pats[cedula].tiempos_entre_gestos, tiempos)
             THEN [exc |-> "AutenticacionError",
                   msg |-> <<"Patron gestual: timings fuera de tolerancia.">>,
                   matches |-> matches, n |-> n]
             ELSE [exc |-> "", msg |-> <<>>, matches |-> matches, n |-> n]

\* validar_patron with the environment variables not set; the timing check
\* is then off, whatever the intervals.
validar_patron(pats, cedula, secuencia_capturada, tiempos) ==
    IF cedula \notin DOMAIN pats
    THEN [exc |-> "AutenticacionError",
          msg |-> <<"No hay patron gestual enrolado para este usuario.">>,
          matches |-> 0, n |-> 0]
    ELSE IF Len(secuencia_capturada) = 0
    THEN [exc |-> "ValidacionError",
          msg |-> <<"La secuencia capturada del patron esta vacia.">>,
          matches |-> 0, n |-> 0]
    ELSE LET n == Max(Len(pats[cedula].secuencia_gestos), Len(secuencia_capturada))
             matches == Coincidencias(pats[cedula].secuencia_gestos, secuencia_capturada)
         IN  IF 10 * matches < 9 * n
             THEN [exc |-> "AutenticacionError",
                   msg |-> <<"Patron gestual no coincide", matches, n>>,
                   matches |-> matches, n |-> n]
             ELSE [exc |-> "", msg |-> <<>>, matches |-> matches, n |-> n]

\* ServicioAuditoria.registrar: RegistroAutenticacion.__post_init__ strips
\* the cedula and validates it, and what validar_cedula raises leaves
\* registrar; a valid record is appended to RepoRegistros.
registrar(regs, accs, cedula_propietario, id_area, metodo, factores, resultado, motivo, id_permiso, timestamp, reloj) ==
    LET id == uuid4(regs, accs)
        ts == IF timestamp = 0 THEN reloj ELSE timestamp
    IN  IF ~validar_cedula(cedula_propietario)
        THEN [regs |-> regs, id |-> 0,
              exc |-> validar_cedula_str(cedula_propietario).exc,
              msg |-> <<"Cedula invalida">>]
        ELSE [regs |-> Append(regs, [id_registro |-> id,
                                     timestamp |-> ts,
                                     cedula_propietario |-> strip(cedula_propietario),
                                     id_area |-> id_area,
                                     metodo |-> metodo,
                                     factores |-> factores,
                                     resultado |-> resultado,
                                     motivo |-> motivo,
                                     id_permiso |-> id_permiso]),
              id |-> id, exc |-> "", msg |-> <<>>]

\* ---------------------------------------------------------- collaborators
\* SensorGestosSimulado.capturar_secuencia on the list of prepared sequences.
capturar_secuencia(secuencias, cantidad) ==
    IF cantidad <= 0
    THEN [secuencias |-> secuencias, seq |-> <<>>, exc |-> "ValidacionError",
          msg |-> <<"cantidad debe ser > 0">>]
    ELSE IF secuencias = <<>>
    THEN [secuencias |-> secuencias, seq |-> <<>>,
          exc |-> "IntegracionHardwareError",
          msg |-> <<"No hay secuencias simuladas configuradas.">>]
    ELSE [secuencias |-> Tail(secuencias), seq |-> Take(Head(secuencias), cantidad),
          exc |-> "", msg |-> <<>>]

\* The second component of its result, the intervals: always None.
TiemposSimulado == <<>>

\* An actuator is named by the method of IActuadorAcceso that fails with
\* IntegracionHardwareError (ArduinoSerial._enviar_paquete), "ok" for none.
Actuadores == {"ok", "exito_hw", "puerta_hw", "fallo_hw"}
ErrorArduino == <<"Fallo enviando datos al Arduino">>

\* ------------------------------------------------------------ orchestrator
\* Python binds a call with keyword-only arguments when the keywords passed
\* are exactly the parameters (none of these has a default); otherwise the
\* call raises TypeError before the body runs.
Enlaza(keywords, parametros) == keywords = parametros

ParamsValidarRfid == {"serial", "cedula_esperada", "ahora"}
KwValidarRfid == {"serial", "cedula_propietario", "ahora"}
ParamsValidarPin == {"id_area", "secuencia_capturada"}
KwValidarPin == {"cedula_propietario", "id_area", "secuencia_capturada"}
ParamsValidarPatron == {"cedula", "secuencia_capturada", "tiempos"}
KwValidarPatron == {"cedula_propietario", "secuencia_capturada", "tiempos"}
ErrorKeyword == <<"got an unexpected keyword argument 'cedula_propietario'">>

\* os.getenv("AUTH_GESTO_CIERRE", "0") when the variable is not set, and the
\* local gesto_cierre_auth of lines 44-46 under the value env of the
\* variable; the gesture None is -1.
AUTH_GESTO_CIERRE == "0"
gesto_cierre_auth(env, gesto_cierre) ==
    IF env = "1" THEN gesto_cierre ELSE -1

Fallar(e, exc, msg) == [e EXCEPT !.exc = exc, !.msg = msg]
Traza(e, paso) == [e EXCEPT !.traza = Append(@, paso)]
Captura(e, cantidad, a) ==
    [e EXCEPT !.capturas =
        Append(@, [cantidad |-> cantidad,
                   gesto_cierre |-> gesto_cierre_auth(a.env, a.gesto_cierre)])]

\* The steps of solicitar_acceso's try block, last first. a holds the
\* arguments of the call (ahora already defaulted to the clock), e the
\* execution so far: the stores as the call has left them, the locals
\* factores_ok and permiso, the exception raised (exc, msg), the value
\* returned (ret) and, for the record, the steps entered (traza), the
\* captures asked of the sensor and the signals the actuator has shown.

\* 5) success: actuator, audit record, access record (lines 81-107)
PasoExito(a, e) ==
    IF a.actuador = "exito_hw"
    THEN Fallar(e, "IntegracionHardwareError", ErrorArduino)
    ELSE IF a.actuador = "puerta_hw"
    THEN Fallar([e EXCEPT !.senales = Append(@, "exito")],
                "IntegracionHardwareError", ErrorArduino)
    ELSE LET e1 == [e EXCEPT !.senales = @ \o <<"exito", "puerta">>]
             r == registrar(e.regs, e.accs, a.cedula_propietario, a.id_area, "RFID",
                            e.factores_ok, "EXITO", <<>>, e.permiso, a.ahora, a.reloj)
             acceso == [id_acceso |-> uuid4(r.regs, e.accs),
                        cedula_propietario |-> a.cedula_propietario,
                        id_area |-> a.id_area,
                        fecha_entrada |-> a.ahora,
                        registro_exitoso_id |-> r.id]
         IN  IF r.exc # "" THEN Fallar(e1, r.exc, r.msg)
             ELSE [e1 EXCEPT !.regs = r.regs,
                             !.accs = Append(@, acceso),
                             !.ret = <<acceso.id_acceso, r.id>>]

\* 4) pattern: capture, length check, validar_patron (lines 72-79)
PasoPatron(a, e) ==
    LET c == capturar_secuencia(e.sensor, PatronLen)
        e1 == Captura(Traza(e, "CAPTURA_PATRON"), PatronLen, a)
        e2 == [e1 EXCEPT !.sensor = c.secuencias]
        e3 == Traza(e2, "PATRON")
        v == validar_patron(patrones, a.cedula_propietario, c.seq, TiemposSimulado)
    IN  IF c.exc # "" THEN Fallar(e1, c.exc, c.msg)
        ELSE IF Len(c.seq) # PatronLen
        THEN Fallar(e2, "AutenticacionError",
                    <<"Patron Incompleto (cancelado o timeout)", Len(c.seq), PatronLen>>)
        ELSE IF ~Enlaza(KwValidarPatron, ParamsValidarPatron)
        THEN Fallar(e3, "TypeError", ErrorKeyword)
        ELSE IF v.exc # "" THEN Fallar(e3, v.exc, v.msg)
        ELSE PasoExito(a, [e3 EXCEPT !.factores_ok = Append(@, "PATRON_GESTUAL")])

\* 3) PIN: capture of 4, length check, validar_pin (lines 65-70)
PasoPin(a, e) ==
    LET c == capturar_secuencia(e.sensor, PinLen)
        e1 == Captura(Traza(e, "CAPTURA_PIN"), PinLen, a)
        e2 == [e1 EXCEPT !.sensor = c.secuencias]
        e3 == Traza(e2, "PIN")
        v == validar_pin(e.pins, a.id_area, c.seq)
    IN  IF c.exc # "" THEN Fallar(e1, c.exc, c.msg)
        ELSE IF Len(c.seq) # PinLen
        THEN Fallar(e2, "AutenticacionError",
                    <<"PIN gestual incompleto (cancelado o timeout)", Len(c.seq), PinLen>>)
        ELSE IF ~Enlaza(KwValidarPin, ParamsValidarPin)
        THEN Fallar(e3, "TypeError", ErrorKeyword)
        ELSE IF v.exc # "" THEN Fallar([e3 EXCEPT !.pins = v.pins], v.exc, v.msg)
        ELSE PasoPatron(a, [e3 EXCEPT !.pins = v.pins,
                                      !.factores_ok = Append(@, "PIN_GESTUAL")])

\* 2) RFID: validar_rfid(serial=, cedula_propietario=, ahora=) (lines 59-63)
PasoRfid(a, e) ==
    LET e1 == Traza(e, "RFID")
        v == validar_rfid(e.creds, a.serial_rfid, a.cedula_propietario, a.ahora)
    IN  IF ~Enlaza(KwValidarRfid, ParamsValidarRfid)
        THEN Fallar(e1, "TypeError", ErrorKeyword)
        ELSE IF v.exc # "" THEN Fallar([e1 EXCEPT !.creds = v.creds], v.exc, v.msg)
        ELSE PasoPin(a, [e1 EXCEPT !.creds = v.creds,
                                   !.factores_ok = Append(@, "RFID")])

\* A variant of the authorization step that goes on to the RFID step
\* whatever the authorization answered.
PasoAutorizacionSigue(a, e) ==
    LET e1 == Traza(e, "AUTORIZACION")
        v == verificar_permiso_y_horario(a.cedula_propietario, a.id_area, a.ahora)
    IN  PasoRfid(a, [e1 EXCEPT !.permiso = v.permiso])

\* 1) authorization (lines 53-57)
PasoAutorizacion(a, e) ==
    LET e1 == Traza(e, "AUTORIZACION")
        v == verificar_permiso_y_horario(a.cedula_propietario, a.id_area, a.ahora)
    IN  IF v.exc # "" THEN Fallar(e1, v.exc, v.msg)
        ELSE PasoRfid(a, [e1 EXCEPT !.permiso = v.permiso])

\* actuador.indicar_fallo() inside try / except Exception: pass
IndicarFallo(a, e) ==
    IF a.actuador = "fallo_hw" THEN e
    ELSE [e EXCEPT !.senales = Append(@, "fallo")]

\* A variant of the failure audit that records the PIN as a passed factor.
AuditarFalloConFactor(a, e, motivo, timestamp) ==
    LET r == registrar(e.regs, e.accs, a.cedula_propietario, a.id_area, "RFID",
                       Append(e.factores_ok, "PIN_GESTUAL"), "FALLO", motivo,
                       e.permiso, timestamp, a.reloj)
    IN  IF r.exc # "" THEN Fallar(e, r.exc, r.msg)
        ELSE [e EXCEPT !.regs = r.regs]

\* Variants of the failure audit: one that records the failure as EXITO,
\* one that records nothing.
AuditarFalloComoExito(a, e, motivo, timestamp) ==
    LET r == registrar(e.regs, e.accs, a.cedula_propietario, a.id_area, "RFID",
                       e.factores_ok, "EXITO", motivo, e.permiso, timestamp, a.reloj)
    IN  IF r.exc # "" THEN Fallar(e, r.exc, r.msg)
        ELSE [e EXCEPT !.regs = r.regs]

AuditarFalloSinRegistro(a, e, motivo, timestamp) ==
    IF ~validar_cedula(a.cedula_propietario)
    THEN Fallar(e, "ValidacionError", <<"Cedula invalida">>)
    ELSE e

\* The audit record of a failure (lines 114-123 and 133-141); an exception
\* raised while building it replaces the one being handled.
AuditarFallo(a, e, motivo, timestamp) ==
    LET r == registrar(e.regs, e.accs, a.cedula_propietario, a.id_area, "RFID",
                       e.factores_ok, "FALLO", motivo, e.permiso, timestamp, a.reloj)
    IN  IF r.exc # "" THEN Fallar(e, r.exc, r.msg)
        ELSE [e EXCEPT !.regs = r.regs]

\* A variant of the except clauses whose first clause names
\* AutenticacionError alone.
ManejarSoloAutenticacion(a, e) ==
    IF e.exc \in {"AutenticacionError"}
    THEN AuditarFallo(a, IndicarFallo(a, e), e.msg, a.ahora)
    ELSE IF e.exc = "IntegracionHardwareError"
    THEN AuditarFallo(a, IndicarFallo(a, e), <<"Fallo hardware: ">> \o e.msg, 0)
    ELSE e

\* The except clauses (lines 109-142); any other exception leaves the call
\* as it is.
ManejarExcepcion(a, e) ==
    IF e.exc \in {"AutenticacionError", "AutorizacionError"}
    THEN AuditarFallo(a, IndicarFallo(a, e), e.msg, a.ahora)
    ELSE IF e.exc = "IntegracionHardwareError"
    THEN AuditarFallo(a, IndicarFallo(a, e), <<"Fallo hardware: ">> \o e.msg, 0)
    ELSE e

\* The try block of solicitar_acceso, from the locals of lines 36-50.
CuerpoTry(a, sensor) ==
    PasoAutorizacion(a, [creds |-> creds, pins |-> pins,
                         regs |-> registros, accs |-> accesos,
                         sensor |-> sensor, factores_ok |-> <<>>,
                         permiso |-> NoPermiso,
                         exc |-> "", msg |-> <<>>, ret |-> <<>>,
                         traza |-> <<>>, capturas |-> <<>>, senales |-> <<>>])

\* CasoUsoAcceso.solicitar_acceso
solicitar_acceso(a, sensor) == ManejarExcepcion(a, CuerpoTry(a, sensor))

\* ------------------------------------------------------------------ inputs
SensorOk == <<PinU1, PatronU1>>
Sensores ==
    {SensorOk,                          \* both sequences as enrolled
     <<>>,                              \* the first capture fails
     <<<<1, 3>>>>,                      \* 2 of the 4 codes of the PIN
     <<<<1, 3, 7, 14>>, PatronU1>>,     \* a wrong PIN
     <<PinU1>>,                         \* the second capture fails
     <<PinU1, <<1, 1, 2>>>>,            \* 3 of the 6 codes of the pattern
     <<PinU1, <<1, 1, 2, 3, 5, 9>>>>}   \* a wrong pattern

Sol(c, ar, s, sen, act) ==
    [cedula |-> c, id_area |-> ar, serial |-> s, sensor |-> sen, actuador |-> act]

\* The requests made of solicitar_acceso: every owner at every area, the
\* unknown serial, every sensor and every actuator.
Solicitudes ==
    {Sol(c, ar, "R1", SensorOk, "ok") : c \in Cedulas, ar \in AreaIds}
    \cup {Sol(U1, "A1", s, SensorOk, "ok") : s \in Seriales}
    \cup {Sol(U1, "A1", "R1", sen, "ok") : sen \in Sensores}
    \cup {Sol(U1, "A1", "R1", SensorOk, act) : act \in Actuadores}

\* ------------------------------------------------------------------- state
InvNinguna ==
    [op |-> "ninguna", cedula |-> <<>>, id_area |-> "", serial |-> "",
     sensor |-> <<>>, actuador |-> "", ahora |-> 0,
     exc |-> "", msg |-> <<>>, ret |-> <<>>,
     factores_ok |-> <<>>, permiso |-> NoPermiso,
     traza |-> <<>>, capturas |-> <<>>, senales |-> <<>>,
     nregs |-> 0, naccs |-> 0, toco |-> FALSE, racha |-> 0,
     vencidas |-> 0, fallos_antes |-> 0,
     secuencia |-> <<>>, matches |-> 0, n |-> 0, previas |-> 0, hora |-> 0,
     id |-> "", liberados |-> {}, env |-> "0", gesto_cierre |-> 19,
     tiempos |-> <<>>, entorno |-> EntornoPorDefecto]

\* The seeded area and permissions: A1 open at hour 1 and closed at hour 0;
\* U1 permitted in A1 up to date 1; U2 with a suspended permission and one
\* valid from date 2.
AreasSembradas == [id \in {"A1"} |-> [hora_apertura |-> 1, hora_cierre |-> 1]]
PermisosSembrados ==
    << [id_permiso |-> "P1", cedula_propietario |-> U1, id_area |-> "A1",
        estado |-> "ACTIVO", vigente_desde |-> 0, vigente_hasta |-> 1],
       [id_permiso |-> "P2", cedula_propietario |-> U2, id_area |-> "A1",
        estado |-> "SUSPENDIDO", vigente_desde |-> 0, vigente_hasta |-> 0],
       [id_permiso |-> "P3", cedula_propietario |-> U2, id_area |-> "A1",
        estado |-> "ACTIVO", vigente_desde |-> 2, vigente_hasta |-> 0] >>

\* The system with the given areas, permissions and pattern of U1 (its
\* sequence and its intervals), and the seeded credentials (R1 of U1
\* expiring on date 1, R2 of U2 reported lost) and PIN of U1 for A1.
SistemaCon(areas_dadas, permisos_dados, secuencia_patron, tiempos_patron) ==
    /\ areas = areas_dadas
    /\ permisos = permisos_dados
    /\ creds = [s \in {"R1", "R2"} |->
                   IF s = "R1"
                   THEN [cedula_propietario |-> U1, fecha_expiracion |-> 1,
                         estado |-> "ACTIVA", intentos_fallidos |-> 0,
                         intentos_exitosos |-> 0, ultimo_acceso |-> 0]
                   ELSE [cedula_propietario |-> U2, fecha_expiracion |-> 2,
                         estado |-> "PERDIDA", intentos_fallidos |-> 0,
                         intentos_exitosos |-> 0, ultimo_acceso |-> 0]]
    /\ pins = [k \in {<<U1, "A1">>} |->
                  [id_pin |-> "PIN1", secuencia_gestos |-> PinU1,
                   estado |-> "ACTIVO", intentos_fallidos |-> 0,
                   max_intentos |-> max_intentos_pin]]
    /\ patrones = [c \in {U1} |->
                      [id_patron |-> "PAT1", secuencia_gestos |-> secuencia_patron,
                       tiempos_entre_gestos |-> tiempos_patron]]
    /\ index_cedula = [c \in {U1, U2} |-> IF c = U1 THEN "R1" ELSE "R2"]
    /\ index_id_pin = [id \in {"PIN1"} |-> <<U1, "A1">>]
    /\ index_id_patron = [id \in {"PAT1"} |-> U1]
    /\ registros = <<>>
    /\ accesos = <<>>
    /\ inv = InvNinguna

\* The system with a pattern enrolled without intervals.
Sistema(areas_dadas, permisos_dados, secuencia_patron) ==
    SistemaCon(areas_dadas, permisos_dados, secuencia_patron, <<>>)

\* The seeded system.
Sembrado(secuencia_patron) == Sistema(AreasSembradas, PermisosSembrados, secuencia_patron)

Init == Sembrado(PatronU1)

\* ----------------------------------------------------------------- actions
\* The number of requests made in a row, up to this one, that were
\* authorized and presented the same stored credential of another owner,
\* counted from a credential that was ACTIVA with no failed attempt (0 when
\* this request is not one of them).
RachaSolicitud(sol, ahora) ==
    IF \/ sol.serial \notin DOMAIN creds
       \/ creds[sol.serial].cedula_propietario = sol.cedula
       \/ verificar_permiso_y_horario(sol.cedula, sol.id_area, ahora).exc # ""
    THEN 0
    ELSE IF inv.op = "solicitar_acceso" /\ inv.serial = sol.serial /\ inv.racha > 0
    THEN Min(inv.racha + 1, max_intentos_rfid + 1)
    ELSE IF creds[sol.serial].estado = "ACTIVA" /\ creds[sol.serial].intentos_fallidos = 0
    THEN 1
    ELSE 0

\* One call of CasoUsoAcceso.solicitar_acceso, from its arguments to the
\* value it returns or the exception it lets out, with the environment
\* variable AUTH_GESTO_CIERRE holding env.
Solicitud(sol, ahora, env, gesto_cierre) ==
        \* ahora: the argument, or datetime.now() when it is None (line 40)
        LET a == [cedula_propietario |-> sol.cedula, id_area |-> sol.id_area,
                  serial_rfid |-> sol.serial, actuador |-> sol.actuador,
                  gesto_cierre |-> gesto_cierre, env |-> env,
                  ahora |-> ahora, reloj |-> ahora]
        \* reloj: the datetime.now() that registrar reads when it is given no
        \* timestamp, which only the hardware handler does (lines 133-141)
        IN  \E reloj \in IF CuerpoTry(a, sol.sensor).exc = "IntegracionHardwareError"
                         THEN Instantes ELSE {ahora} :
            \E e \in {solicitar_acceso([a EXCEPT !.reloj = reloj], sol.sensor)} :
            /\ creds' = e.creds
            /\ pins' = e.pins
            /\ registros' = e.regs
            /\ accesos' = e.accs
            /\ inv' = [InvNinguna EXCEPT
                         !.op = "solicitar_acceso", !.cedula = sol.cedula,
                         !.id_area = sol.id_area, !.serial = sol.serial,
                         !.sensor = sol.sensor, !.actuador = sol.actuador,
                         !.ahora = a.ahora, !.exc = e.exc, !.msg = e.msg,
                         !.ret = e.ret, !.factores_ok = e.factores_ok,
                         !.permiso = e.permiso, !.traza = e.traza,
                         !.capturas = e.capturas, !.senales = e.senales,
                         !.nregs = Len(registros), !.naccs = Len(accesos),
                         !.toco = (e.creds # creds \/ e.pins # pins),
                         !.racha = RachaSolicitud(sol, ahora),
                         !.env = env, !.gesto_cierre = gesto_cierre]
            /\ UNCHANGED <<areas, permisos, patrones, indices>>

\* A request at the access point: the variable is not set and the caller
\* passes the gesture 19.
SolicitarAcceso ==
    /\ Len(registros) < MaxRegistros
    /\ \E sol \in Solicitudes, ahora \in Instantes :
          Solicitud(sol, ahora, AUTH_GESTO_CIERRE, 19)

\* A request that the authorization lets through to the checks of the
\* factors (one that it denies ends at line 57, before any of them).
SolicitarAccesoAutorizado ==
    /\ Len(registros) < MaxRegistros
    /\ \E sol \in Solicitudes, ahora \in Instantes :
          /\ verificar_permiso_y_horario(sol.cedula, sol.id_area, ahora).exc = ""
          /\ Solicitud(sol, ahora, AUTH_GESTO_CIERRE, 19)

\* A request made of solicitar_acceso directly, for any owner id, valid or
\* not, at any area.
SolicitudesDirectas ==
    {Sol(c, ar, "R1", SensorOk, "ok") : c \in Cedulas \cup CedulasNoValidas, ar \in AreaIds}
    \cup {Sol(c, "A1", "R1", sen, "ok") : c \in {U1, UX}, sen \in Sensores}
SolicitarAccesoDirecto ==
    /\ Len(registros) < MaxRegistros
    /\ \E sol \in SolicitudesDirectas, ahora \in Instantes :
          Solicitud(sol, ahora, AUTH_GESTO_CIERRE, 19)

\* A request under any setting of the variable, with any gesture or None.
Entornos == {"0", "1", "true"}
GestosDeCierre == {-1, 19}
SolicitarAccesoConfigurado ==
    /\ Len(registros) < MaxRegistros
    /\ \E sol \in Solicitudes, ahora \in Instantes, env \in Entornos, gesto_cierre \in GestosDeCierre :
          Solicitud(sol, ahora, env, gesto_cierre)

\* The number of consecutive calls of validar_rfid with an owner other than
\* the credential's, counted from a credential that was ACTIVA with no
\* failed attempt (0 when this call is not one of them).
Racha(serial, cedula_esperada) ==
    IF serial \notin DOMAIN creds \/ creds[serial].cedula_propietario = cedula_esperada
    THEN 0
    ELSE IF creds[serial].estado = "ACTIVA" /\ creds[serial].intentos_fallidos = 0
    THEN 1
    ELSE IF inv.op = "validar_rfid" /\ inv.serial = serial /\ inv.racha > 0
    THEN Min(inv.racha + 1, max_intentos_rfid + 1)
    ELSE 0

\* The number of consecutive calls of validar_rfid by the credential's owner
\* on a date after its expiry, counted from a credential that was ACTIVA
\* with no failed attempt (0 when this call is not one of them).
Vencidas(serial, cedula_esperada, ahora) ==
    IF \/ serial \notin DOMAIN creds
       \/ creds[serial].cedula_propietario # cedula_esperada
       \/ Fecha(ahora) <= creds[serial].fecha_expiracion
    THEN 0
    ELSE IF creds[serial].estado = "ACTIVA" /\ creds[serial].intentos_fallidos = 0
    THEN 1
    ELSE IF inv.op = "validar_rfid" /\ inv.serial = serial /\ inv.vencidas > 0
    THEN Min(inv.vencidas + 1, max_intentos_rfid + 1)
    ELSE 0

\* One call of ServicioAutenticacion.validar_rfid by a client of the service.
ValidarRfid ==
    \E serial \in Seriales, cedula_esperada \in {U1, U2}, ahora \in Instantes :
        \E v \in {validar_rfid(creds, serial, cedula_esperada, ahora)} :
            /\ serial \in DOMAIN creds => v.creds[serial].intentos_exitosos <= MaxExitos
            /\ creds' = v.creds
            /\ inv' = [InvNinguna EXCEPT
                         !.op = "validar_rfid", !.cedula = cedula_esperada,
                         !.serial = serial, !.ahora = ahora,
                         !.exc = v.exc, !.msg = v.msg,
                         !.nregs = Len(registros), !.naccs = Len(accesos),
                         !.toco = (v.creds # creds),
                         !.racha = Racha(serial, cedula_esperada),
                         !.vencidas = Vencidas(serial, cedula_esperada, ahora),
                         !.fallos_antes = IF serial \in DOMAIN creds
                                          THEN creds[serial].intentos_fallidos
                                          ELSE 0]
            /\ UNCHANGED <<areas, permisos, pins, patrones, registros, accesos, indices>>

\* The captures presented to validar_pin and validar_patron.
PinErrado == <<1, 3, 7, 14>>
CapturasPin == {PinU1, PinErrado}

RECURSIVE SecuenciasDe(_, _)
SecuenciasDe(gestos, len) ==
    IF len = 0 THEN {<<>>}
    ELSE {Append(s, g) : s \in SecuenciasDe(gestos, len - 1), g \in gestos}

Diez == <<1, 1, 1, 1, 1, 1, 1, 1, 1, 1>>
CapturasPatron ==
    UNION {SecuenciasDe({1, 2}, len) : len \in 0..MaxLen}
    \cup {<<1, 2, 3>>, <<1, 2, 9>>, PatronU1, <<1, 1, 2, 3, 5, 9>>,
          Diez, [Diez EXCEPT ![10] = 2], [Diez EXCEPT ![9] = 2, ![10] = 2]}

\* One call of ServicioAutenticacion.validar_pin by a client of the service.
ValidarPin ==
    \E id_area \in AreaIds, secuencia_capturada \in CapturasPin :
        \E v \in {validar_pin(pins, id_area, secuencia_capturada)} :
            /\ pins' = v.pins
            /\ inv' = [InvNinguna EXCEPT
                         !.op = "validar_pin", !.id_area = id_area,
                         !.secuencia = secuencia_capturada,
                         !.exc = v.exc, !.msg = v.msg,
                         !.nregs = Len(registros), !.naccs = Len(accesos),
                         !.toco = (v.pins # pins)]
            /\ UNCHANGED <<areas, permisos, creds, patrones, registros, accesos, indices>>

\* The number of failed calls of validar_patron made in a row just before
\* this one, counted up to MaxFallidas.
Previas ==
    IF inv.op = "validar_patron" /\ inv.exc # ""
    THEN Min(inv.previas + 1, MaxFallidas)
    ELSE 0

\* A variant of the call that refuses every capture once max_intentos_pin
\* calls in a row have failed, as the PIN does.
ValidarPatronConBloqueo ==
    \E cedula \in {U1, U2}, secuencia_capturada \in CapturasPatron :
        \E v \in {validar_patron(patrones, cedula, secuencia_capturada, TiemposSimulado)} :
            /\ cedula = U2 => secuencia_capturada = PatronU1
            /\ inv' = [InvNinguna EXCEPT
                         !.op = "validar_patron", !.cedula = cedula,
                         !.secuencia = secuencia_capturada,
                         !.exc = IF Previas >= max_intentos_pin
                                 THEN "AutenticacionError" ELSE v.exc,
                         !.msg = v.msg,
                         !.matches = v.matches, !.n = v.n,
                         !.nregs = Len(registros), !.naccs = Len(accesos),
                         !.previas = Previas]
            /\ UNCHANGED <<areas, permisos, creds, pins, patrones, registros, accesos, indices>>

\* One call of ServicioAutenticacion.validar_patron by a client of the
\* service; the simulated sensor gives no intervals.
ValidarPatron ==
    \E cedula \in {U1, U2}, secuencia_capturada \in CapturasPatron :
        \E v \in {validar_patron(patrones, cedula, secuencia_capturada, TiemposSimulado)} :
            /\ cedula = U2 => secuencia_capturada = PatronU1
            /\ inv' = [InvNinguna EXCEPT
                         !.op = "validar_patron", !.cedula = cedula,
                         !.secuencia = secuencia_capturada,
                         !.exc = v.exc, !.msg = v.msg,
                         !.matches = v.matches, !.n = v.n,
                         !.nregs = Len(registros), !.naccs = Len(accesos),
                         !.previas = Previas]
            /\ UNCHANGED <<areas, permisos, creds, pins, patrones, registros, accesos, indices>>

\* The seeded system with any enrolled pattern for U1 (PatronGestual takes
\* any non-empty sequence).
PatronesEnrolados == CapturasPatron \ {<<>>}

InitPatron == \E secuencia_patron \in PatronesEnrolados : Sembrado(secuencia_patron)

\* The intervals of the timing check, in tenths of a second: enrolled
\* intervals are never negative and there is one less than there are
\* gestures (PatronGestual.__post_init__); captured ones are None, any list
\* of k intervals, or a list of one second each of any length up to
\* MaxTiempos. With the tolerance 0.8 one second enrolled admits 0.2 s to
\* 1.8 s.
IntervalosEnrolados == {0, 10}
IntervalosCapturados == {0, 2, 18, 19}
Entornos_patron ==
    {EntornoPorDefecto} \cup {[PATRON_TIMING_CHECK |-> "1", PATRON_TIMING_TOL |-> t] : t \in {8, 15}}

Opcional(listas) == {<<>>} \cup {<<l>> : l \in listas}
TiemposEnrolados(k) == Opcional(SecuenciasDe(IntervalosEnrolados, k))
TiemposCapturados(k) ==
    Opcional(SecuenciasDe(IntervalosCapturados, k)
             \cup {[i \in 1..largo |-> 10] : largo \in 0..MaxTiempos})

\* The seeded system with a pattern of U1 of 1 to MaxTiempos + 1 gestures,
\* enrolled with or without its intervals.
InitTiempos ==
    \E k \in 0..MaxTiempos : \E t \in TiemposEnrolados(k) :
        SistemaCon(AreasSembradas, PermisosSembrados, Take(PatronU1, k + 1), t)

\* One call of ServicioAutenticacion.validar_patron with the intervals the
\* sensor measured, under any setting of PATRON_TIMING_CHECK and
\* PATRON_TIMING_TOL, with the enrolled sequence or with its last gesture
\* mistaken.
ValidarPatronConTiempos ==
    \E entorno \in Entornos_patron, errado \in BOOLEAN :
    \E tiempos \in TiemposCapturados(Len(patrones[U1].secuencia_gestos) - 1) :
        \E secuencia_capturada \in
               {IF errado
                THEN [patrones[U1].secuencia_gestos EXCEPT
                         ![Len(patrones[U1].secuencia_gestos)] = 9]
                ELSE patrones[U1].secuencia_gestos} :
        \E v \in {validar_patron_en(entorno, patrones, U1, secuencia_capturada, tiempos)} :
            /\ inv' = [InvNinguna EXCEPT
                         !.op = "validar_patron", !.cedula = U1,
                         !.secuencia = secuencia_capturada,
                         !.tiempos = tiempos, !.entorno = entorno,
                         !.exc = v.exc, !.msg = v.msg,
                         !.matches = v.matches, !.n = v.n,
                         !.nregs = Len(registros), !.naccs = Len(accesos)]
            /\ UNCHANGED <<areas, permisos, creds, pins, patrones, registros, accesos, indices>>

\* The strings given to validar_cedula: the cedula of U1 with any one
\* character changed, with up to MaxRelleno blanks before or after it, cut
\* short or one too long; every string of ten digits that differs from it in
\* the province, the third digit and the last; and the strings with no digit.
RECURSIVE Blancos(_)
Blancos(k) == IF k = 0 THEN <<>> ELSE <<Espacio>> \o Blancos(k - 1)
Textos ==
    {[U1 EXCEPT ![i] = ch] : i \in 1..10, ch \in Caracteres}
    \cup {Blancos(i) \o t \o Blancos(j) :
             i \in 0..MaxRelleno, j \in 0..MaxRelleno, t \in {U1, UX, <<>>}}
    \cup {Take(U1, 9), U1 \o <<5>>}
    \cup {[U1 EXCEPT ![1] = a, ![2] = b, ![3] = c, ![10] = d] :
             a \in 0..2, b \in 0..9, c \in {0, 5, 6}, d \in 0..9}

\* One call of validadores.validar_cedula.
ValidarCedula ==
    \E texto \in Textos :
        \E v \in {validar_cedula_str(texto)} :
            /\ inv' = [InvNinguna EXCEPT
                         !.op = "validar_cedula", !.cedula = texto,
                         !.exc = v.exc, !.ret = v.ret,
                         !.nregs = Len(registros), !.naccs = Len(accesos)]
            /\ UNCHANGED <<areas, permisos, creds, pins, patrones, registros, accesos, indices>>

\* The patterns of U1 that enrolment can have stored: the first 1 to
\* LargoEnrolado gestures of a sequence (accion_enrolar_patron captures
\* LargoEnrolado of them; PatronGestual takes any length from 1).
LargoEnrolado == 10
PatronLargo == PatronU1 \o <<13, 21, 3, 5>>
InitLargo == \E largo \in 1..LargoEnrolado : Sembrado(Take(PatronLargo, largo))

\* The captures of PatronLen gestures that the orchestrator passes on: the
\* one nearest to the enrolled pattern (its first gestures, and 0 from where
\* it ends), one with its last gesture mistaken, and one with no gesture of
\* the pattern.
CapturaMasCercana(ref) ==
    [i \in 1..PatronLen |-> IF i <= Len(ref) THEN ref[i] ELSE 0]
CapturasDeLargoN(ref) ==
    {CapturaMasCercana(ref), [CapturaMasCercana(ref) EXCEPT ![PatronLen] = 9],
     [i \in 1..PatronLen |-> 0]}

\* One call of ServicioAutenticacion.validar_patron with a capture of
\* PatronLen gestures, as the pattern step makes it (lines 73-78).
ValidarPatronCapturado ==
    \E secuencia_capturada \in CapturasDeLargoN(patrones[U1].secuencia_gestos) :
        \E v \in {validar_patron(patrones, U1, secuencia_capturada, TiemposSimulado)} :
            /\ inv' = [InvNinguna EXCEPT
                         !.op = "validar_patron", !.cedula = U1,
                         !.secuencia = secuencia_capturada,
                         !.exc = v.exc, !.msg = v.msg,
                         !.matches = v.matches, !.n = v.n,
                         !.nregs = Len(registros), !.naccs = Len(accesos)]
            /\ UNCHANGED <<areas, permisos, creds, pins, patrones, registros, accesos, indices>>

\* One call of ServicioAutorizacion.verificar_permiso_y_horario by a client
\* of the service.
VerificarPermisoYHorario ==
    \E cedula_propietario \in {U1, U2}, id_area \in AreaIds, ahora \in Instantes :
        \E v \in {verificar_permiso_y_horario(cedula_propietario, id_area, ahora)} :
            /\ inv' = [InvNinguna EXCEPT
                         !.op = "verificar_permiso_y_horario",
                         !.cedula = cedula_propietario, !.id_area = id_area,
                         !.ahora = ahora, !.exc = v.exc, !.msg = v.msg,
                         !.permiso = v.permiso,
                         !.nregs = Len(registros), !.naccs = Len(accesos)]
            /\ UNCHANGED <<areas, permisos, creds, pins, patrones, registros, accesos, indices>>

\* Times of day, in minutes after midnight: 00:00, 06:59, 07:00, 07:01,
\* 19:59, 20:00, 20:01 and 23:59.
HorasDelDia == {0, 419, 420, 421, 1199, 1200, 1201, 1439}

\* One call of AreaAcceso.es_accesible_ahora on a stored area, at a moment
\* whose time of day is t.
EsAccesibleAhora ==
    \E id_area \in DOMAIN areas, t \in HorasDelDia :
        /\ inv' = [InvNinguna EXCEPT
                     !.op = "es_accesible_ahora", !.id_area = id_area,
                     !.hora = t,
                     !.ret = <<es_accesible_a_las(areas[id_area], t)>>,
                     !.nregs = Len(registros), !.naccs = Len(accesos)]
        /\ UNCHANGED <<areas, permisos, creds, pins, patrones, registros, accesos, indices>>

\* The permissions a store may hold: up to MaxPermisos of them, of the owner
\* and area asked about or of another owner or area, suspended, or ACTIVO
\* with a range open at both ends, at either end, or closed.
IdsPermiso == <<"P1", "P2", "P3", "P4", "P5">>
Titulares == {<<U1, "A1">>, <<U2, "A1">>, <<U1, "A2">>}
Vigencias ==
    {<<"SUSPENDIDO", 0, 0>>, <<"ACTIVO", 0, 0>>, <<"ACTIVO", 0, 1>>,
     <<"ACTIVO", 2, 0>>, <<"ACTIVO", 2, 2>>}
PermisosCon(id) ==
    {[id_permiso |-> id, cedula_propietario |-> k[1], id_area |-> k[2],
      estado |-> v[1], vigente_desde |-> v[2], vigente_hasta |-> v[3]] :
        k \in Titulares, v \in Vigencias}

RECURSIVE PermisosPosibles(_)
PermisosPosibles(k) ==
    IF k = 0 THEN {<<>>}
    ELSE PermisosPosibles(k - 1)
         \cup {Append(ps, p) : ps \in {q \in PermisosPosibles(k - 1) : Len(q) = k - 1},
                               p \in PermisosCon(IdsPermiso[k])}

\* The opening windows of an area over the two hours of a day: closed at
\* hour 0, open all day, and wrapping past midnight.
Ventanas == {<<1, 1>>, <<0, 1>>, <<1, 0>>}

InitAutorizacion ==
    \E v \in Ventanas, ps \in PermisosPosibles(MaxPermisos) :
        Sistema([id \in {"A1"} |-> [hora_apertura |-> v[1], hora_cierre |-> v[2]]],
                ps, PatronU1)

InitVentana ==
    \E apertura \in HorasDelDia, cierre \in HorasDelDia :
        Sistema([id \in {"A1"} |-> [hora_apertura |-> apertura, hora_cierre |-> cierre]],
                PermisosSembrados, PatronU1)

\* One call of ServicioAuditoria.registrar by a client of the service, with a
\* valid or an invalid owner, with a timestamp or with None, the clock then
\* reading the last instant.
Registrar ==
    /\ Len(registros) < MaxRegistros
    /\ \E cedula_propietario \in {U1, UX, UZ}, timestamp \in {0, 1} :
        \E r \in {registrar(registros, accesos, cedula_propietario, "A1", "RFID", <<>>,
                             "FALLO", <<"Prueba">>, NoPermiso, timestamp, MaxInstante)} :
            /\ registros' = r.regs
            /\ inv' = [InvNinguna EXCEPT
                         !.op = "registrar", !.cedula = cedula_propietario,
                         !.id_area = "A1", !.ahora = timestamp,
                         !.exc = r.exc, !.msg = r.msg, !.ret = <<r.id>>,
                         !.nregs = Len(registros), !.naccs = Len(accesos)]
            /\ UNCHANGED <<areas, permisos, creds, pins, patrones, accesos, indices>>

\* The entities an operator enrols: credentials of either owner under any
\* serial, PINs and patterns of either owner under the ids 1..MaxIds.
IdsPin == <<"PIN1", "PIN2", "PIN3">>
IdsPatron == <<"PAT1", "PAT2", "PAT3">>

CredencialesNuevas ==
    {[serial |-> s, cedula_propietario |-> c,
      credencial |-> [cedula_propietario |-> c, fecha_expiracion |-> f,
                      estado |-> "ACTIVA", intentos_fallidos |-> 0,
                      intentos_exitosos |-> 0, ultimo_acceso |-> 0]] :
        s \in Seriales, c \in {U1, U2}, f \in {1, 2}}

PinsNuevos ==
    {[id_pin |-> IdsPin[i], key |-> <<c, "A1">>,
      pin |-> [id_pin |-> IdsPin[i], secuencia_gestos |-> sec,
               estado |-> "ACTIVO", intentos_fallidos |-> 0,
               max_intentos |-> max_intentos_pin]] :
        i \in 1..MaxIds, c \in {U1, U2}, sec \in CapturasPin}

PatronesNuevos ==
    {[id_patron |-> IdsPatron[i], cedula_propietario |-> c,
      patron |-> [id_patron |-> IdsPatron[i], secuencia_gestos |-> sec,
                  tiempos_entre_gestos |-> <<>>]] :
        i \in 1..MaxIds, c \in {U1, U2}, sec \in {PatronU1, <<1, 2, 3>>}}

\* The ids that saves have taken out of an index so far.
Liberados(op, data, key, campo, id) ==
    (IF inv.op = op THEN inv.liberados ELSE {})
    \cup (IF key \in DOMAIN data /\ data[key][campo] # id THEN {data[key][campo]} ELSE {})

\* One call of RepoRFID.guardar by the enrolment screens.
GuardarCredencial ==
    \E c \in CredencialesNuevas :
        \E r \in {RepoRFID_guardar(creds, index_cedula, c)} :
            /\ creds' = r.data
            /\ index_cedula' = r.index
            /\ inv' = [InvNinguna EXCEPT
                         !.op = "guardar_rfid", !.serial = c.serial,
                         !.cedula = c.cedula_propietario,
                         !.exc = r.exc, !.msg = r.msg]
            /\ UNCHANGED <<areas, permisos, pins, patrones, registros, accesos,
                           index_id_pin, index_id_patron>>

\* One call of RepoPins.guardar by the enrolment screens.
GuardarPin ==
    \E p \in PinsNuevos :
        \E r \in {RepoPins_guardar(pins, index_id_pin, p)} :
            /\ pins' = r.data
            /\ index_id_pin' = r.index
            /\ inv' = [InvNinguna EXCEPT
                         !.op = "guardar_pin", !.id = p.id_pin,
                         !.cedula = p.key[1], !.id_area = p.key[2],
                         !.exc = r.exc, !.msg = r.msg,
                         !.liberados =
                             IF r.exc = ""
                             THEN Liberados("guardar_pin", pins, p.key, "id_pin", p.id_pin)
                             ELSE IF inv.op = "guardar_pin" THEN inv.liberados ELSE {}]
            /\ UNCHANGED <<areas, permisos, creds, patrones, registros, accesos,
                           index_cedula, index_id_patron>>

\* One call of RepoPatrones.guardar by the enrolment screens.
GuardarPatron ==
    \E p \in PatronesNuevos :
        \E r \in {RepoPatrones_guardar(patrones, index_id_patron, p)} :
            /\ patrones' = r.data
            /\ index_id_patron' = r.index
            /\ inv' = [InvNinguna EXCEPT
                         !.op = "guardar_patron", !.id = p.id_patron,
                         !.cedula = p.cedula_propietario,
                         !.exc = r.exc, !.msg = r.msg,
                         !.liberados =
                             IF r.exc = ""
                             THEN Liberados("guardar_patron", patrones,
                                            p.cedula_propietario, "id_patron", p.id_patron)
                             ELSE IF inv.op = "guardar_patron" THEN inv.liberados ELSE {}]
            /\ UNCHANGED <<areas, permisos, creds, pins, registros, accesos,
                           index_cedula, index_id_pin>>

\* The repositories as constructed, before anything is enrolled.
InitVacio ==
    /\ areas = AreasSembradas
    /\ permisos = PermisosSembrados
    /\ creds = Vacio
    /\ pins = Vacio
    /\ patrones = Vacio
    /\ index_cedula = Vacio
    /\ index_id_pin = Vacio
    /\ index_id_patron = Vacio
    /\ registros = <<>>
    /\ accesos = <<>>
    /\ inv = InvNinguna

\* The access point in service: requests for access and the calls of the
\* authentication service, on the seeded system. The authorization service,
\* the audit service and enrolment are driven on stores of their own, below.
Next == SolicitarAcceso \/ ValidarRfid \/ ValidarPin \/ ValidarPatron

\* The operations of enrolment.
NextEnrolamiento == GuardarCredencial \/ GuardarPin \/ GuardarPatron

Spec == Init /\ [][Next]_vars

\* The system driven by access requests alone, and the authentication
\* service driven by its clients alone.
SpecAcceso == Init /\ [][SolicitarAcceso]_vars
SpecServicio == Init /\ [][ValidarRfid]_vars

\* validar_patron on every enrolled pattern and capture.
SpecPatron == InitPatron /\ [][ValidarPatron]_vars

\* validar_cedula on every string.
SpecCedula == Init /\ [][ValidarCedula]_vars

\* validar_patron with its timing check, on every enrolled and captured list
\* of intervals.
SpecTiempos == InitTiempos /\ [][ValidarPatronConTiempos]_vars

\* verificar_permiso_y_horario on every window and store of permissions, and
\* es_accesible_ahora on every window and time of day.
SpecAutorizacion == InitAutorizacion /\ [][VerificarPermisoYHorario]_vars
SpecVentana == InitVentana /\ [][EsAccesibleAhora]_vars

\* The pattern step on an enrolled pattern of any length.
SpecLargo == InitLargo /\ [][ValidarPatronCapturado \/ SolicitarAccesoAutorizado]_vars

\* The checks that count failed attempts, and the requests that call them.
SpecFactores == Init /\ [][ValidarRfid \/ ValidarPin \/ SolicitarAccesoAutorizado]_vars

\* Access requests for every owner id.
SpecPropietarios == Init /\ [][SolicitarAccesoDirecto]_vars

\* Access requests under every setting of AUTH_GESTO_CIERRE.
SpecConfiguracion == Init /\ [][SolicitarAccesoConfigurado]_vars

\* The audit log written by its service and by access requests.
SpecAuditoria == Init /\ [][Registrar \/ SolicitarAcceso]_vars

\* The repositories filled by any sequence of saves.
SpecEnrolamiento == InitVacio /\ [][NextEnrolamiento]_vars
SpecRepoRFID == InitVacio /\ [][GuardarCredencial]_vars
SpecRepoGestos == InitVacio /\ [][GuardarPin \/ GuardarPatron]_vars

\* ------------------------------------------------------------------ claims
\* What a step of solicitar_acceso is judged against: the request it was
\* made with (inv'), on the stores it found (the unprimed variables).
EsSolicitud == inv'.op = "solicitar_acceso"
Autorizacion == verificar_permiso_y_horario(inv'.cedula, inv'.id_area, inv'.ahora)

\* The presented serial is registered to the requesting owner, ACTIVA and
\* not past its expiry date.
CredencialEnRegla ==
    /\ inv'.serial \in DOMAIN creds
    /\ creds[inv'.serial].cedula_propietario = inv'.cedula
    /\ creds[inv'.serial].estado = "ACTIVA"
    /\ Fecha(inv'.ahora) <= creds[inv'.serial].fecha_expiracion

\* The sensor gives the enrolled PIN at its first capture and the enrolled
\* pattern, of the configured length, at its second.
SensorComoEnrolado ==
    /\ <<inv'.cedula, inv'.id_area>> \in DOMAIN pins
    /\ pins[<<inv'.cedula, inv'.id_area>>].estado = "ACTIVO"
    /\ inv'.cedula \in DOMAIN patrones
    /\ Len(patrones[inv'.cedula].secuencia_gestos) = PatronLen
    /\ inv'.sensor = <<pins[<<inv'.cedula, inv'.id_area>>].secuencia_gestos,
                       patrones[inv'.cedula].secuencia_gestos>>

TresFactores == <<"RFID", "PIN_GESTUAL", "PATRON_GESTUAL">>

\* The call returns an access record and an audit record, the only ones it
\* adds: the audit record is an EXITO with the three factors, no reason and
\* the matched permission, and the access record links to it.
AccesoConcedido ==
    /\ inv'.exc = ""
    /\ Len(registros') = Len(registros) + 1
    /\ SubSeq(registros', 1, Len(registros)) = registros
    /\ Len(accesos') = Len(accesos) + 1
    /\ SubSeq(accesos', 1, Len(accesos)) = accesos
    /\ LET r == registros'[Len(registros')]
           ac == accesos'[Len(accesos')]
       IN  /\ r.resultado = "EXITO"
           /\ r.factores = TresFactores
           /\ r.motivo = <<>>
           /\ r.id_permiso = Autorizacion.permiso
           /\ r.cedula_propietario = inv'.cedula
           /\ r.id_area = inv'.id_area
           /\ ac.registro_exitoso_id = r.id_registro
           /\ inv'.ret = <<ac.id_acceso, r.id_registro>>

\* The call adds exactly one audit record, a FALLO with the given factors
\* and reason and the permission matched by the authorization (none when it
\* failed), and no access record.
UnFalloAuditado(factores, motivo) ==
    /\ Len(registros') = Len(registros) + 1
    /\ SubSeq(registros', 1, Len(registros)) = registros
    /\ accesos' = accesos
    /\ inv'.ret = <<>>
    /\ LET r == registros'[Len(registros')]
       IN  /\ r.resultado = "FALLO"
           /\ r.factores = factores
           /\ r.motivo = motivo
           /\ r.id_permiso = Autorizacion.permiso
           /\ r.cedula_propietario = inv'.cedula
           /\ r.id_area = inv'.id_area

\* C1: when the area is open at `now`, a current ACTIVE permission exists for
\* (owner, area), the serial is registered to that owner, ACTIVA and not past
\* expiry, and the sensor returns the enrolled PIN and then the enrolled
\* pattern, solicitar_acceso returns an access record and an audit record
\* with result EXITO, factors [RFID, PIN, PATTERN], an empty reason and the
\* matched permission's id.
C1_ExitoDeExtremoAExtremo ==
    [][(/\ EsSolicitud
        /\ Autorizacion.exc = ""
        /\ CredencialEnRegla
        /\ SensorComoEnrolado
        /\ inv'.actuador = "ok") => AccesoConcedido]_vars

\* A run of solicitar_acceso that has reached the RFID step.
C1_LlegaAlRfid ==
    /\ inv.op = "solicitar_acceso"
    /\ inv.traza = <<"AUTORIZACION", "RFID">>
    /\ inv.exc = "TypeError"

OrdenDePasos ==
    <<"AUTORIZACION", "RFID", "CAPTURA_PIN", "PIN", "CAPTURA_PATRON", "PATRON">>

\* C2: within one call of solicitar_acceso the steps entered are an initial
\* part of authorization, RFID check, PIN capture, PIN check, pattern
\* capture, pattern check, each entered once and only after every earlier
\* one succeeded; the sensor is asked at most twice; and when the
\* authorization fails no credential or PIN is changed and the sensor is
\* never asked.
C2_PasosEnOrden ==
    inv.op = "solicitar_acceso" =>
        /\ Len(inv.traza) \in 1..Len(OrdenDePasos)
        /\ inv.traza = SubSeq(OrdenDePasos, 1, Len(inv.traza))
        /\ Len(inv.capturas) <= 2
        /\ Len(inv.traza) >= 2 => inv.permiso # NoPermiso
        /\ Len(inv.traza) >= 3 => Len(inv.factores_ok) >= 1 /\ Len(inv.capturas) >= 1
        /\ Len(inv.traza) >= 5 => Len(inv.factores_ok) >= 2 /\ Len(inv.capturas) = 2
        /\ inv.factores_ok = SubSeq(TresFactores, 1, Len(inv.factores_ok))
        /\ inv.permiso = NoPermiso =>
              /\ inv.traza = <<"AUTORIZACION">>
              /\ inv.capturas = <<>>
              /\ ~inv.toco

\* A call whose authorization succeeded and that went on to the RFID step.
C2_AutorizadoLuegoRfid ==
    /\ inv.op = "solicitar_acceso"
    /\ inv.permiso = "P1"
    /\ inv.traza = <<"AUTORIZACION", "RFID">>
    /\ inv.capturas = <<>>

\* The try block run on the request of the step.
Original ==
    CuerpoTry([cedula_propietario |-> inv'.cedula, id_area |-> inv'.id_area,
               serial_rfid |-> inv'.serial, actuador |-> inv'.actuador,
               gesto_cierre |-> inv'.gesto_cierre, env |-> inv'.env,
               ahora |-> inv'.ahora, reloj |-> inv'.ahora],
              inv'.sensor)

\* C3: for a valid owner id, a call of solicitar_acceso that ends with an
\* AutenticacionError or AutorizacionError has appended exactly one audit
\* record, a FALLO with the factors passed so far, the error message as its
\* reason and the matched permission's id (none when the authorization
\* failed), has created no access record, and lets out the error its try
\* block raised.
C3_FalloAuditadoUnaVez ==
    [][(/\ EsSolicitud
        /\ validar_cedula(inv'.cedula)
        /\ inv'.exc \in {"AutenticacionError", "AutorizacionError"})
       => /\ inv'.exc = Original.exc
          /\ inv'.msg = Original.msg
          /\ UnFalloAuditado(Original.factores_ok, Original.msg)]_vars

\* A denied request of a valid owner without a current permission, audited.
C3_DenegadoSinPermiso ==
    /\ inv.op = "solicitar_acceso"
    /\ inv.cedula = U2
    /\ inv.exc = "AutorizacionError"
    /\ inv.msg = <<"Acceso Denegado: el usuario no tiene permiso vigente para esta area.">>
    /\ Len(registros) = inv.nregs + 1
    /\ registros[Len(registros)].resultado = "FALLO"
    /\ registros[Len(registros)].motivo = inv.msg

Exitos == {j \in 1..Len(registros) : registros[j].resultado = "EXITO"}

C5_ActuadorNoDegrada ==
    [][(/\ EsSolicitud
        /\ Autorizacion.exc = ""
        /\ CredencialEnRegla
        /\ SensorComoEnrolado
        /\ inv'.actuador \in {"exito_hw", "puerta_hw"}) => AccesoConcedido]_vars

\* C6: when the sensor returns fewer codes than asked, 4 at the PIN step or
\* the pattern length at the pattern step, solicitar_acceso raises an
\* AutenticacionError reporting the codes got and required, writes one
\* FALLO audit record with the factors already passed ([RFID], or
\* [RFID, PIN_GESTUAL]) and creates no access record.
C6_CapturaIncompleta ==
    [][(/\ EsSolicitud
        /\ Autorizacion.exc = ""
        /\ CredencialEnRegla
        /\ Len(inv'.sensor) >= 1
        /\ Len(inv'.sensor[1]) < PinLen)
       => /\ inv'.exc = "AutenticacionError"
          /\ inv'.msg = <<"PIN gestual incompleto (cancelado o timeout)",
                          Len(inv'.sensor[1]), PinLen>>
          /\ UnFalloAuditado(<<"RFID">>, inv'.msg)]_vars

\* C7: when a capture raises IntegracionHardwareError at the PIN step,
\* solicitar_acceso appends exactly one FALLO audit record with the factors
\* passed before that step and the reason "Fallo hardware: " followed by the
\* error detail, creates no access record and lets the hardware error out.
C7_FalloDeHardwareAuditado ==
    [][(/\ EsSolicitud
        /\ Autorizacion.exc = ""
        /\ CredencialEnRegla
        /\ inv'.sensor = <<>>)
       => /\ inv'.exc = "IntegracionHardwareError"
          /\ UnFalloAuditado(<<"RFID">>, <<"Fallo hardware: ">> \o inv'.msg)]_vars

\* C8: a request for an area that does not exist lets the store's
\* RecursoNoEncontradoError out, writes no audit record, shows no signal on
\* the actuator, attempts no factor and changes no credential or PIN.
C8_AreaDesconocida ==
    [][(EsSolicitud /\ inv'.id_area \notin DOMAIN areas)
       => /\ inv'.exc = "RecursoNoEncontradoError"
          /\ inv'.msg = <<"Area no encontrada", inv'.id_area>>
          /\ registros' = registros
          /\ accesos' = accesos
          /\ creds' = creds
          /\ pins' = pins
          /\ inv'.senales = <<>>
          /\ inv'.capturas = <<>>
          /\ inv'.factores_ok = <<>>
          /\ inv'.traza = <<"AUTORIZACION">>]_vars

\* A request for the unknown area made after an audited request.
C8_AreaA9TrasUnRegistro ==
    /\ inv.op = "solicitar_acceso"
    /\ inv.id_area = "A9"
    /\ inv.exc = "RecursoNoEncontradoError"
    /\ Len(registros) = 1
    /\ inv.nregs = 1

\* C9 as stated: when the authorization step fails with an
\* AutorizacionError, the error propagates and the call has written no
\* audit record.
C9_SinRegistroDeAuditoria ==
    [][(EsSolicitud /\ Autorizacion.exc = "AutorizacionError")
       => /\ inv'.exc = "AutorizacionError"
          /\ registros' = registros]_vars

\* C9, amended: when the authorization step fails with an AutorizacionError
\* no factor is attempted (no RFID, PIN or pattern step, no capture, no
\* credential or PIN changed) and no access record is created, and for a
\* valid owner id the failure handler signals the actuator and appends one
\* FALLO audit record with no factors, the error message as reason and no
\* permission id before the same error propagates.
C9_DenegadoAuditadoSinFactores ==
    [][(EsSolicitud /\ Autorizacion.exc = "AutorizacionError")
       => /\ inv'.traza = <<"AUTORIZACION">>
          /\ inv'.capturas = <<>>
          /\ creds' = creds
          /\ pins' = pins
          /\ accesos' = accesos
          /\ validar_cedula(inv'.cedula) =>
                /\ inv'.exc = "AutorizacionError"
                /\ inv'.msg = Autorizacion.msg
                /\ inv'.actuador = "ok" => inv'.senales = <<"fallo">>
                /\ Len(registros') = Len(registros) + 1
                /\ SubSeq(registros', 1, Len(registros)) = registros
                /\ registros'[Len(registros')].resultado = "FALLO"
                /\ registros'[Len(registros')].factores = <<>>
                /\ registros'[Len(registros')].motivo = Autorizacion.msg
                /\ registros'[Len(registros')].id_permiso = NoPermiso
                /\ registros'[Len(registros')].timestamp = inv'.ahora]_vars

\* A request outside the area's hours, denied and audited.
C9_FueraDeHorarioAuditado ==
    /\ inv.op = "solicitar_acceso"
    /\ inv.exc = "AutorizacionError"
    /\ inv.msg = <<"Acceso Denegado: fuera de horario permitido.">>
    /\ inv.traza = <<"AUTORIZACION">>
    /\ Len(registros) = inv.nregs + 1
    /\ registros[Len(registros)].factores = <<>>
    /\ registros[Len(registros)].id_permiso = NoPermiso

\* C10: from a credential that is ACTIVA with no failed attempt, the k-th
\* consecutive call of validar_rfid with an owner other than the
\* credential's, for k below max_intentos_rfid, fails with "RFID no
\* corresponde al usuario." and leaves the credential ACTIVA with k failed
\* attempts; the call that makes k equal to max_intentos_rfid sets it
\* BLOQUEADA and fails with "RFID bloqueada por demasiados intentos
\* fallidos.".
C10_BloqueoPorPropietario ==
    (inv.op = "validar_rfid" /\ inv.racha \in 1..max_intentos_rfid) =>
        /\ inv.exc = "AutenticacionError"
        /\ creds[inv.serial].intentos_fallidos = inv.racha
        /\ IF inv.racha < max_intentos_rfid
           THEN /\ creds[inv.serial].estado = "ACTIVA"
                /\ inv.msg = <<"RFID no corresponde al usuario.">>
           ELSE /\ creds[inv.serial].estado = "BLOQUEADA"
                /\ inv.msg = <<"RFID bloqueada por demasiados intentos fallidos.">>

\* The call that blocks the credential.
C10_TercerFalloBloquea ==
    /\ inv.op = "validar_rfid"
    /\ inv.racha = max_intentos_rfid
    /\ creds["R1"].estado = "BLOQUEADA"
    /\ creds["R1"].intentos_fallidos = max_intentos_rfid

\* C11: from a credential that is ACTIVA with no failed attempt, each of the
\* first max_intentos_rfid consecutive calls of validar_rfid by its owner on
\* a date after its expiry fails and adds one to the failed attempts, and
\* after the last of them the credential is BLOQUEADA.
C11_BloqueoPorVencimiento ==
    (inv.op = "validar_rfid" /\ inv.vencidas \in 1..max_intentos_rfid) =>
        /\ inv.exc = "AutenticacionError"
        /\ creds[inv.serial].intentos_fallidos = inv.vencidas
        /\ inv.vencidas = max_intentos_rfid => creds[inv.serial].estado = "BLOQUEADA"

\* What a step of validar_rfid is judged against.
EsValidarRfid == inv'.op = "validar_rfid" /\ inv'.serial \in DOMAIN creds

\* C12: on a credential that is BLOQUEADA, PERDIDA or EXPIRADA validar_rfid
\* fails with an AutenticacionError whatever the expected owner and the date
\* are, and leaves the credential as it was, so that each of the three
\* states is kept by every call.
C12_EstadosAbsorbentes ==
    [][(/\ EsValidarRfid
        /\ creds[inv'.serial].estado \in {"BLOQUEADA", "PERDIDA", "EXPIRADA"})
       => /\ inv'.exc = "AutenticacionError"
          /\ inv'.msg \in {<<"RFID bloqueada.">>, <<"RFID marcada como perdida.">>,
                           <<"RFID expirada.">>}
          /\ creds' = creds]_vars

\* A blocked credential presented once more, by someone other than its owner.
C12_BloqueadaOtraVez ==
    /\ inv.op = "validar_rfid"
    /\ inv.serial = "R1"
    /\ inv.cedula = U2
    /\ inv.msg = <<"RFID bloqueada.">>
    /\ creds["R1"].estado = "BLOQUEADA"
    /\ creds["R1"].intentos_fallidos = inv.fallos_antes

\* C13: validar_rfid on an ACTIVA credential, with its owner and on a date
\* not after its expiry, succeeds, sets the failed attempts to 0 whatever
\* they were, adds exactly 1 to the successful attempts, sets ultimo_acceso
\* to ahora and changes nothing else, the state ACTIVA included.
C13_ExitoReinicia ==
    [][(/\ EsValidarRfid
        /\ creds[inv'.serial].estado = "ACTIVA"
        /\ creds[inv'.serial].cedula_propietario = inv'.cedula
        /\ Fecha(inv'.ahora) <= creds[inv'.serial].fecha_expiracion)
       => /\ inv'.exc = ""
          /\ creds' = [creds EXCEPT ![inv'.serial] =
                          [@ EXCEPT !.intentos_fallidos = 0,
                                    !.intentos_exitosos = @ + 1,
                                    !.ultimo_acceso = inv'.ahora]]]_vars

\* A success after all but one of the attempts that block.
C13_ExitoTrasDosFallos ==
    /\ inv.op = "validar_rfid"
    /\ inv.exc = ""
    /\ inv.fallos_antes = max_intentos_rfid - 1
    /\ creds[inv.serial].intentos_fallidos = 0
    /\ creds[inv.serial].intentos_exitosos = 1
    /\ creds[inv.serial].estado = "ACTIVA"

\* C14: an unknown serial, a missing PIN for (owner, area) and a missing
\* pattern for the owner each end solicitar_acceso with an
\* AutenticacionError, audited as a FALLO with the factors passed so far,
\* and change no credential or PIN.
C14_NoEncontradoComoAutenticacion ==
    [][(/\ EsSolicitud
        /\ Autorizacion.exc = ""
        /\ \/ inv'.serial \notin DOMAIN creds
           \/ CredencialEnRegla /\ <<inv'.cedula, inv'.id_area>> \notin DOMAIN pins
           \/ CredencialEnRegla /\ inv'.cedula \notin DOMAIN patrones)
       => /\ inv'.exc = "AutenticacionError"
          /\ UnFalloAuditado(inv'.factores_ok, inv'.msg)
          /\ inv'.serial \notin DOMAIN creds => creds' = creds
          /\ pins' = pins]_vars

\* What a step of validar_pin is judged against: the call (inv') and the
\* PINs stored for its area before it.
EsValidarPin == inv'.op = "validar_pin"
PinsDelArea == {k \in DOMAIN pins : k[2] = inv'.id_area}
MsgPinIncorrecto == <<"PIN gestual incorrecto.">>
MsgPinBloqueado == <<"PIN gestual bloqueado para esta area.">>

\* C15: with 3 attempts allowed, a wrong capture of 4 codes against an
\* ACTIVO PIN fails with the incorrect-PIN error and leaves it ACTIVO while
\* it is the first or second in a row; the third leaves the PIN BLOQUEADO and
\* fails with a blocked message other than the incorrect-PIN one, as does
\* every later attempt, the right sequence included.
C15_TresIntentosDePin ==
    [][(EsValidarPin /\ Len(inv'.secuencia) = PinLen) =>
        \A k \in PinsDelArea :
            /\ pins[k].estado = "BLOQUEADO" =>
                  /\ inv'.exc = "AutenticacionError"
                  /\ inv'.msg = MsgPinBloqueado
                  /\ pins'[k] = pins[k]
            /\ (pins[k].estado = "ACTIVO" /\ inv'.secuencia # pins[k].secuencia_gestos) =>
                  /\ inv'.exc = "AutenticacionError"
                  /\ pins'[k].intentos_fallidos = pins[k].intentos_fallidos + 1
                  /\ IF pins[k].intentos_fallidos + 1 < max_intentos_pin
                     THEN pins'[k].estado = "ACTIVO" /\ inv'.msg = MsgPinIncorrecto
                     ELSE pins'[k].estado = "BLOQUEADO" /\ inv'.msg = MsgPinBloqueado]_vars

\* C16: each mismatch adds exactly 1 to the failed attempts of the PIN, and
\* the PIN becomes BLOQUEADO exactly when they reach that PIN's own
\* max_intentos.
C16_BloqueoAlMaximoDelPin ==
    [][EsValidarPin =>
        \A k \in PinsDelArea :
            (pins[k].estado = "ACTIVO" /\ inv'.secuencia # pins[k].secuencia_gestos) =>
                /\ pins'[k].intentos_fallidos = pins[k].intentos_fallidos + 1
                /\ pins'[k].estado = IF pins[k].intentos_fallidos + 1 >= pins[k].max_intentos
                                     THEN "BLOQUEADO" ELSE "ACTIVO"]_vars

C18_PinDelParSolicitado ==
    [][EsValidarPin =>
        /\ \A k \in DOMAIN pins \ PinsDelArea : pins'[k] = pins[k]
        /\ PinsDelArea = {} =>
              /\ inv'.exc = "AutenticacionError"
              /\ inv'.msg = <<"No hay PIN gestual configurado para esta area.">>]_vars

\* A call of validar_patron for an owner with an enrolled pattern and a
\* capture that is not empty; the enrolled and the captured sequence.
PatronComparado ==
    /\ inv.op = "validar_patron"
    /\ inv.cedula \in DOMAIN patrones
    /\ inv.secuencia # <<>>
Enrolada == patrones[inv.cedula].secuencia_gestos
Capturada == inv.secuencia

\* The number of positions up to i at which E and C agree.
RECURSIVE PosicionesIguales(_, _, _)
PosicionesIguales(E, C, i) ==
    IF i = 0 THEN 0
    ELSE (IF E[i] = C[i] THEN 1 ELSE 0) + PosicionesIguales(E, C, i - 1)

Iguales == PosicionesIguales(Enrolada, Capturada, Min(Len(Enrolada), Len(Capturada)))
Mayor == Max(Len(Enrolada), Len(Capturada))

\* validar_patron with the two sequences in each other's place.
Intercambiada ==
    validar_patron([c \in {inv.cedula} |-> [secuencia_gestos |-> Capturada]],
                   inv.cedula, Enrolada, TiemposSimulado)

\* C19: for an enrolled sequence E and a captured sequence C, both non-empty,
\* the score validar_patron computes is the number of positions below
\* min(|E|,|C|) at which they agree over max(|E|,|C|); it lies in [0,1], is
\* the same with E and C swapped, and is 1 for ([1,2,3],[1,2,3]), 2/3 for
\* ([1,2,3],[1,2,9]) and 2/3 for ([1,2,3],[1,2]).
C19_Similitud ==
    PatronComparado =>
        /\ inv.matches = Iguales
        /\ inv.n = Mayor
        /\ 0 <= inv.matches /\ inv.matches <= inv.n /\ inv.n > 0
        /\ Intercambiada.matches * inv.n = inv.matches * Intercambiada.n
        /\ (Enrolada = <<1, 2, 3>> /\ Capturada = <<1, 2, 3>>) => inv.matches = inv.n
        /\ (Enrolada = <<1, 2, 3>> /\ Capturada \in {<<1, 2, 9>>, <<1, 2>>}) =>
              3 * inv.matches = 2 * inv.n

\* The score 2/3 of the capture [1,2] against the enrolled [1,2,3].
C19_DosDeTres ==
    /\ PatronComparado
    /\ Enrolada = <<1, 2, 3>>
    /\ Capturada = <<1, 2>>
    /\ inv.matches = 2
    /\ inv.n = 3

\* C20: with the timing check off, validar_patron for an owner with an
\* enrolled pattern and a non-empty capture raises AutenticacionError
\* exactly when 10 * matches < 9 * max(|E|,|C|) and raises nothing else; a
\* capture equal to the enrolled sequence passes, and sequences of different
\* lengths are rejected for their score alone.
C20_RechazoBajoElUmbral ==
    PatronComparado =>
        /\ inv.exc \in {"", "AutenticacionError"}
        /\ inv.exc = "AutenticacionError" <=> 10 * Iguales < 9 * Mayor
        /\ Capturada = Enrolada => inv.exc = ""

\* A capture of 10 gestures with 9 right passes, its score being the threshold.
C20_NueveDeDiezPasa ==
    /\ PatronComparado
    /\ Enrolada = Diez
    /\ Capturada = [Diez EXCEPT ![10] = 2]
    /\ inv.matches = 9
    /\ inv.n = 10
    /\ inv.exc = ""

\* C21: the pattern factor has no lockout. A call of validar_patron, after
\* any number of failed ones, leaves the enrolled patterns and every other
\* store as they were, an enrolled pattern carries no counter and no state,
\* and a capture that reaches the threshold against the enrolled pattern is
\* accepted however many calls failed before it.
C21_PatronSinBloqueo ==
    [][inv'.op = "validar_patron" =>
         /\ UNCHANGED <<areas, permisos, creds, pins, patrones, registros, accesos, indices>>
         /\ \A c \in DOMAIN patrones' :
                DOMAIN patrones'[c] = {"id_patron", "secuencia_gestos", "tiempos_entre_gestos"}
         /\ ( /\ inv'.cedula \in DOMAIN patrones
              /\ inv'.secuencia # <<>>
              /\ 10 * Iguales' >= 9 * Mayor' ) => inv'.exc = ""]_vars

\* A capture is accepted right after max_intentos_rfid calls failed in a row.
C21_AceptadaTrasFallos ==
    /\ inv.op = "validar_patron"
    /\ inv.previas >= max_intentos_rfid
    /\ inv.exc = ""

\* What a direct call of verificar_permiso_y_horario is judged against: the
\* opening window of the area at the time of the call, and the stored
\* permissions of that owner and area that are ACTIVO and whose range, open
\* at an end that is not given, holds the date of the call.
EsVerificar == inv'.op = "verificar_permiso_y_horario" /\ inv'.id_area \in DOMAIN areas
EnHorario ==
    LET a == areas[inv'.id_area]
        t == Hora(inv'.ahora)
    IN  IF a.hora_apertura <= a.hora_cierre
        THEN t \in a.hora_apertura..a.hora_cierre
        ELSE t \notin (a.hora_cierre + 1)..(a.hora_apertura - 1)
PermisosAlDia ==
    {i \in 1..Len(permisos) :
        /\ permisos[i].cedula_propietario = inv'.cedula
        /\ permisos[i].id_area = inv'.id_area
        /\ permisos[i].estado = "ACTIVO"
        /\ permisos[i].vigente_desde = 0 \/ permisos[i].vigente_desde <= Fecha(inv'.ahora)
        /\ permisos[i].vigente_hasta = 0 \/ Fecha(inv'.ahora) <= permisos[i].vigente_hasta}

\* C22: on an existing area verificar_permiso_y_horario returns a permission
\* exactly when the time is inside the opening window and the store holds an
\* ACTIVO permission of that owner and area whose range holds the date; the
\* permission returned is one of those; otherwise it raises
\* AutorizacionError, for being outside hours before for having no
\* permission; and it changes no store.
C22_PermisoSiYSoloSi ==
    [][EsVerificar =>
         /\ UNCHANGED <<areas, permisos, creds, pins, patrones, registros, accesos, indices>>
         /\ inv'.exc = "" <=> (EnHorario /\ PermisosAlDia # {})
         /\ inv'.exc = "" =>
                \E i \in PermisosAlDia : permisos[i].id_permiso = inv'.permiso
         /\ inv'.exc # "" =>
                /\ inv'.exc = "AutorizacionError"
                /\ inv'.permiso = NoPermiso
                /\ ~EnHorario =>
                       inv'.msg = <<"Acceso Denegado: fuera de horario permitido.">>
                /\ EnHorario =>
                       inv'.msg = <<"Acceso Denegado: el usuario no tiene permiso vigente para esta area.">>]_vars

\* The second stored permission is returned, the first being suspended.
C22_SegundoPermisoDevuelto ==
    /\ inv.op = "verificar_permiso_y_horario"
    /\ inv.exc = ""
    /\ inv.permiso = "P2"
    /\ Len(permisos) = 2
    /\ permisos[1].cedula_propietario = inv.cedula
    /\ permisos[1].id_area = inv.id_area
    /\ permisos[1].estado = "SUSPENDIDO"

\* C23: with hora_apertura <= hora_cierre a time t is accessible exactly
\* when hora_apertura <= t <= hora_cierre; with hora_apertura > hora_cierre
\* exactly when t >= hora_apertura or t <= hora_cierre. For an area opening
\* at 20:00 and closing at 07:00, 06:59 is accessible, 19:59 is not and
\* 20:00 is.
C23_VentanaDeApertura ==
    inv.op = "es_accesible_ahora" =>
        LET a == areas[inv.id_area]
            t == inv.hora
            accesible == inv.ret[1]
        IN  /\ a.hora_apertura <= a.hora_cierre =>
                   (accesible <=> (a.hora_apertura <= t /\ t <= a.hora_cierre))
            /\ a.hora_apertura > a.hora_cierre =>
                   (accesible <=> (t >= a.hora_apertura \/ t <= a.hora_cierre))
            /\ (a.hora_apertura = 1200 /\ a.hora_cierre = 420) =>
                   /\ t = 419 => accesible
                   /\ t = 1199 => ~accesible
                   /\ t = 1200 => accesible

\* The area that opens at 20:00 and closes at 07:00 is asked at 20:00.
C23_AbreALasVeinte ==
    /\ inv.op = "es_accesible_ahora"
    /\ areas[inv.id_area].hora_apertura = 1200
    /\ areas[inv.id_area].hora_cierre = 420
    /\ inv.hora = 1200
    /\ inv.ret = <<TRUE>>

\* What a save of a credential is judged against: the credential given
\* (inv') and the repository it found (the unprimed variables).
EsGuardarRfid == inv'.op = "guardar_rfid"
SerialDeOtro ==
    inv'.serial \in DOMAIN creds /\ creds[inv'.serial].cedula_propietario # inv'.cedula
OtroSerial ==
    \E s \in DOMAIN creds : s # inv'.serial /\ creds[s].cedula_propietario = inv'.cedula

\* C24: after any sequence of saves of credentials no two serials have the
\* same owner, and _index_cedula holds exactly the owners of the stored
\* credentials, each with its serial; a save that gives a stored serial
\* another owner, or an owner a second serial, raises and leaves the
\* credentials and the index as they were.
C24_UnSerialPorPropietario ==
    [][EsGuardarRfid =>
         /\ \A s1, s2 \in DOMAIN creds' :
                creds'[s1].cedula_propietario = creds'[s2].cedula_propietario => s1 = s2
         /\ DOMAIN index_cedula' = {creds'[s].cedula_propietario : s \in DOMAIN creds'}
         /\ \A c \in DOMAIN index_cedula' :
                /\ index_cedula'[c] \in DOMAIN creds'
                /\ creds'[index_cedula'[c]].cedula_propietario = c
         /\ (SerialDeOtro \/ OtroSerial) =>
                /\ inv'.exc # ""
                /\ UNCHANGED <<areas, permisos, creds, pins, patrones, registros, accesos, indices>>]_vars

\* A second serial is refused to an owner who holds one.
C24_SegundoSerialRechazado ==
    /\ inv.op = "guardar_rfid"
    /\ inv.exc # ""
    /\ inv.serial \notin DOMAIN creds
    /\ inv.cedula \in DOMAIN index_cedula
    /\ Cardinality(DOMAIN creds) = 2

\* A save refused for uniqueness: the exception it raised is not "".
EsGuardar == inv'.op \in {"guardar_rfid", "guardar_pin", "guardar_patron"}

\* C25: a save that breaks a uniqueness rule across entities (serial and
\* owner of a credential, id of a PIN held by another owner and area, id of
\* a pattern held by another owner) raises an error of kind ConflictError,
\* which is not ValidacionError.
C25_ErrorDeConflicto ==
    [][(EsGuardar /\ inv'.exc # "") => inv'.exc = "ConflictError"]_vars

\* What a save of a PIN or of a pattern is judged against.
EsGuardarPin == inv'.op = "guardar_pin"
EsGuardarPatron == inv'.op = "guardar_patron"
ClaveDelPin == <<inv'.cedula, inv'.id_area>>
IdDeOtroPar == \E k \in DOMAIN pins : k # ClaveDelPin /\ pins[k].id_pin = inv'.id
IdDeOtroTitular == \E c \in DOMAIN patrones : c # inv'.cedula /\ patrones[c].id_patron = inv'.id

\* C26: after any sequence of saves of PINs no two pairs of owner and area
\* hold the same id_pin and _index_id_pin holds exactly the ids of the stored
\* PINs, each with its pair, so that the id a pair gives up on being saved
\* with a new one is no longer indexed; a save whose id_pin another pair
\* holds raises and leaves the store as it was. The same for patterns, by
\* owner and id_patron.
C26_IndicesInversos ==
    [][/\ EsGuardarPin =>
            /\ \A k1, k2 \in DOMAIN pins' : pins'[k1].id_pin = pins'[k2].id_pin => k1 = k2
            /\ DOMAIN index_id_pin' = {pins'[k].id_pin : k \in DOMAIN pins'}
            /\ \A id \in DOMAIN index_id_pin' :
                   /\ index_id_pin'[id] \in DOMAIN pins'
                   /\ pins'[index_id_pin'[id]].id_pin = id
            /\ ( /\ inv'.exc = ""
                 /\ ClaveDelPin \in DOMAIN pins
                 /\ pins[ClaveDelPin].id_pin # inv'.id )
                   => pins[ClaveDelPin].id_pin \notin DOMAIN index_id_pin'
            /\ IdDeOtroPar =>
                   /\ inv'.exc # ""
                   /\ UNCHANGED <<areas, permisos, creds, pins, patrones, registros, accesos, indices>>
       /\ EsGuardarPatron =>
            /\ \A c1, c2 \in DOMAIN patrones' :
                   patrones'[c1].id_patron = patrones'[c2].id_patron => c1 = c2
            /\ DOMAIN index_id_patron' = {patrones'[c].id_patron : c \in DOMAIN patrones'}
            /\ \A id \in DOMAIN index_id_patron' :
                   /\ index_id_patron'[id] \in DOMAIN patrones'
                   /\ patrones'[index_id_patron'[id]].id_patron = id
            /\ ( /\ inv'.exc = ""
                 /\ inv'.cedula \in DOMAIN patrones
                 /\ patrones[inv'.cedula].id_patron # inv'.id )
                   => patrones[inv'.cedula].id_patron \notin DOMAIN index_id_patron'
            /\ IdDeOtroTitular =>
                   /\ inv'.exc # ""
                   /\ UNCHANGED <<areas, permisos, creds, pins, patrones, registros, accesos, indices>>]_vars

\* A pair is saved with the id that another pair gave up.
C26_IdLiberadoReusado ==
    /\ inv.op = "guardar_pin"
    /\ inv.exc = ""
    /\ inv.id \in inv.liberados
    /\ \E k \in DOMAIN pins :
          /\ k # <<inv.cedula, inv.id_area>>
          /\ pins[k].id_pin # inv.id

\* What a step is judged against: the log it found is the start of the log
\* it leaves.
EsRegistrar == inv'.op = "registrar"
LogPrefijo ==
    /\ Len(registros') >= Len(registros)
    /\ SubSeq(registros', 1, Len(registros)) = registros
IdsDelLog == {registros[i].id_registro : i \in 1..Len(registros)}
AgregaUnoNuevo ==
    /\ Len(registros') = Len(registros) + 1
    /\ registros'[Len(registros')].id_registro \notin IdsDelLog
    /\ registros'[Len(registros')].id_registro = inv'.ret[1]

C28_BloqueoSecuencial ==
    (inv.op = "solicitar_acceso" /\ inv.racha >= max_intentos_rfid) =>
        creds[inv.serial].estado = "BLOQUEADA"

\* The states of one call of solicitar_acceso, in order: START; AUTHORIZED
\* once the permission is held; one state for each factor passed; GRANTED
\* when the call returns and DENIED when it raises.
Cadena == <<"START", "AUTHORIZED", "RFID_OK", "PIN_OK", "PATTERN_OK", "GRANTED">>
Recorrido ==
    <<"START">>
    \o (IF inv'.permiso # NoPermiso THEN <<"AUTHORIZED">> ELSE <<>>)
    \o [i \in 1..Len(inv'.factores_ok) |-> Cadena[i + 2]]
    \o (IF inv'.ret # <<>> THEN <<"GRANTED">> ELSE <<"DENIED">>)
HastaDenegar(k) == Take(Cadena, k) \o <<"DENIED">>
PinBienPatronMal ==
    /\ <<inv'.cedula, inv'.id_area>> \in DOMAIN pins
    /\ pins[<<inv'.cedula, inv'.id_area>>].estado = "ACTIVO"
    /\ inv'.cedula \in DOMAIN patrones
    /\ inv'.sensor = <<pins[<<inv'.cedula, inv'.id_area>>].secuencia_gestos,
                       <<1, 1, 2, 3, 5, 9>>>>

\* C29: a call of solicitar_acceso goes along START, AUTHORIZED, RFID_OK,
\* PIN_OK, PATTERN_OK, GRANTED one state at a time and ends in GRANTED or,
\* from any of the five states before it, in DENIED: from START when the
\* authorization fails, from AUTHORIZED with an unknown serial, from RFID_OK
\* when the capture of the PIN fails, from PIN_OK with a wrong pattern, from
\* PATTERN_OK when the actuator fails; and with everything in order it ends
\* in GRANTED.
C29_EstadosDeLaSolicitud ==
    [][EsSolicitud =>
         /\ Recorrido = Cadena \/ \E k \in 1..5 : Recorrido = HastaDenegar(k)
         /\ Autorizacion.exc = "AutorizacionError" => Recorrido = HastaDenegar(1)
         /\ (Autorizacion.exc = "" /\ inv'.serial \notin DOMAIN creds) =>
                Recorrido = HastaDenegar(2)
         /\ (Autorizacion.exc = "" /\ CredencialEnRegla /\ inv'.sensor = <<>>) =>
                Recorrido = HastaDenegar(3)
         /\ (Autorizacion.exc = "" /\ CredencialEnRegla /\ PinBienPatronMal) =>
                Recorrido = HastaDenegar(4)
         /\ ( /\ Autorizacion.exc = ""
              /\ CredencialEnRegla
              /\ SensorComoEnrolado
              /\ inv'.actuador = "exito_hw" ) => Recorrido = HastaDenegar(5)
         /\ ( /\ Autorizacion.exc = ""
              /\ CredencialEnRegla
              /\ SensorComoEnrolado
              /\ inv'.actuador = "ok" ) => Recorrido = Cadena]_vars

\* The factors whose checks succeeded in the call: a check succeeded when
\* the step after it was entered, and the last one when the call went on to
\* the actuator.
FactoresPasados ==
    IF Len(inv'.traza) < 3 THEN <<>>
    ELSE IF Len(inv'.traza) < 5 THEN Take(TresFactores, 1)
    ELSE IF Len(inv'.traza) = 6 /\ inv'.exc \in {"", "IntegracionHardwareError"}
    THEN TresFactores
    ELSE Take(TresFactores, 2)

EsValidarPatron == inv'.op = "validar_patron"
SimilitudBasta ==
    10 * Coincidencias(patrones[inv'.cedula].secuencia_gestos, inv'.secuencia)
        >= 9 * Max(Len(patrones[inv'.cedula].secuencia_gestos), Len(inv'.secuencia))
IntervalosDeReferencia == patrones[inv'.cedula].tiempos_entre_gestos
AmbosDeIgualLargo ==
    /\ IntervalosDeReferencia # <<>>
    /\ inv'.tiempos # <<>>
    /\ Len(IntervalosDeReferencia[1]) = Len(inv'.tiempos[1])
LimiteInferior(ref, tol) == IF ref * (10 - tol) < 0 THEN 0 ELSE ref * (10 - tol)
EnTolerancia(ref, got, tol) ==
    /\ LimiteInferior(ref, tol) <= 10 * got
    /\ 10 * got <= ref * (10 + tol)
AlgunParFuera ==
    \E i \in 1..Len(inv'.tiempos[1]) :
        /\ IntervalosDeReferencia[1][i] > 0
        /\ ~EnTolerancia(IntervalosDeReferencia[1][i], inv'.tiempos[1][i],
                         inv'.entorno.PATRON_TIMING_TOL)

\* C32: with PATRON_TIMING_CHECK other than "1" the intervals have no part
\* in the result of validar_patron, which is the result of the similarity;
\* with it "1" and both lists of intervals present and of equal length the
\* call fails exactly when the similarity fails or some pair is out of
\* tolerance; and with a list absent or the lengths different the result of
\* the similarity stands.
C32_ChequeoDeTiempos ==
    [][(EsValidarPatron /\ inv'.cedula \in DOMAIN patrones /\ inv'.secuencia # <<>>) =>
         /\ inv'.entorno.PATRON_TIMING_CHECK # "1" => (inv'.exc = "" <=> SimilitudBasta)
         /\ (inv'.entorno.PATRON_TIMING_CHECK = "1" /\ AmbosDeIgualLargo) =>
                /\ inv'.exc = "" <=> (SimilitudBasta /\ ~AlgunParFuera)
                /\ (SimilitudBasta /\ AlgunParFuera) =>
                       inv'.msg = <<"Patron gestual: timings fuera de tolerancia.">>
         /\ (inv'.entorno.PATRON_TIMING_CHECK = "1" /\ ~AmbosDeIgualLargo) =>
                (inv'.exc = "" <=> SimilitudBasta)]_vars

\* The flag is on, the capture is the enrolled sequence, and an interval of
\* 1.9 s against 1 s enrolled fails the factor.
C32_IntervaloFuera ==
    /\ inv.op = "validar_patron"
    /\ inv.entorno = [PATRON_TIMING_CHECK |-> "1", PATRON_TIMING_TOL |-> 8]
    /\ inv.secuencia = patrones[U1].secuencia_gestos
    /\ patrones[U1].tiempos_entre_gestos = <<<<10, 10>>>>
    /\ inv.tiempos = <<<<2, 19>>>>
    /\ inv.exc = "AutenticacionError"
    /\ inv.msg = <<"Patron gestual: timings fuera de tolerancia.">>

\* The strings that the rule of the national ID accepts: exactly ten
\* decimal digits, the first two a number from 1 to 24, the third from 0 to
\* 5, the tenth equal to (10 - (s mod 10)) mod 10, s the sum over the first
\* nine digits of digit times weight 2, 1, 2, 1, 2, 1, 2, 1, 2, less 9 when
\* the product is 10 or more.
Pesos == <<2, 1, 2, 1, 2, 1, 2, 1, 2>>
RECURSIVE SumaPonderada(_, _)
SumaPonderada(t, i) ==
    IF i = 0 THEN 0
    ELSE (IF t[i] * Pesos[i] >= 10 THEN t[i] * Pesos[i] - 9 ELSE t[i] * Pesos[i])
         + SumaPonderada(t, i - 1)
CedulaEnRegla(t) ==
    /\ Len(t) = 10
    /\ \A i \in 1..10 : t[i] \in 0..9
    /\ 10 * t[1] + t[2] \in 1..24
    /\ t[3] \in 0..5
    /\ t[10] = (10 - (SumaPonderada(t, 9) % 10)) % 10

\* C33: validar_cedula returns for exactly the strings in rule, and raises
\* ValidacionError for every other string.
C33_CedulaSiYSoloSi ==
    [][inv'.op = "validar_cedula" =>
         /\ inv'.exc = "" <=> CedulaEnRegla(inv'.cedula)
         /\ inv'.exc # "" => inv'.exc = "ValidacionError"]_vars

\* The credential presented, as a successful check of it at the `now` of the
\* request leaves it.
CredencialTrasExito ==
    [creds[inv'.serial] EXCEPT !.intentos_exitosos = @ + 1,
                               !.intentos_fallidos = 0,
                               !.ultimo_acceso = inv'.ahora]
CapturaDePinIncompleta ==
    /\ inv'.sensor # <<>>
    /\ Len(Head(inv'.sensor)) # PinLen

\* C34: a request that is authorized and presents a credential in order,
\* when the sensor gives a number of codes other than 4 for the PIN, stops
\* at the capture: the PIN check is not entered, no PIN changes, and the
\* credential keeps the success the RFID check recorded.
C34_CapturaIncompletaNoCuenta ==
    [][( /\ EsSolicitud
         /\ Autorizacion.exc = ""
         /\ CredencialEnRegla
         /\ CapturaDePinIncompleta ) =>
            /\ inv'.traza = <<"AUTORIZACION", "RFID", "CAPTURA_PIN">>
            /\ inv'.exc = "AutenticacionError"
            /\ pins' = pins
            /\ creds' = [creds EXCEPT ![inv'.serial] = CredencialTrasExito]]_vars

\* The sensor fails one of the steps after the RFID check: the capture of
\* the PIN, the PIN, the capture of the pattern or the pattern.
FallaTrasElRfid ==
    inv'.sensor \in {<<<<1, 3>>>>, <<PinErrado, PatronU1>>,
                     <<PinU1, <<1, 1, 2>>>>, <<PinU1, <<1, 1, 2, 3, 5, 9>>>>}
PinVerificado ==
    /\ inv'.sensor # <<>>
    /\ <<inv'.cedula, inv'.id_area>> \in DOMAIN pins
    /\ pins[<<inv'.cedula, inv'.id_area>>].estado = "ACTIVO"
    /\ Head(inv'.sensor) = pins[<<inv'.cedula, inv'.id_area>>].secuencia_gestos

\* C35: when the RFID check succeeds and a later step denies the request,
\* the credential keeps its success count raised by one, its failed
\* attempts at 0 and its last use at `now`, a PIN that was verified keeps
\* its failed attempts at 0, the audit record is a FALLO and there is no
\* access record.
C35_EfectosSinDeshacer ==
    [][( /\ EsSolicitud
         /\ Autorizacion.exc = ""
         /\ CredencialEnRegla
         /\ FallaTrasElRfid ) =>
            /\ creds' = [creds EXCEPT ![inv'.serial] = CredencialTrasExito]
            /\ PinVerificado => pins'[<<inv'.cedula, inv'.id_area>>].intentos_fallidos = 0
            /\ Len(registros') = Len(registros) + 1
            /\ registros'[Len(registros')].resultado = "FALLO"
            /\ accesos' = accesos]_vars

\* C36: a call of solicitar_acceso for an owner id that validar_cedula does
\* not accept, at an existing area, is denied by the authorization, and the
\* failure handler's audit record fails validation: no audit record and no
\* access record are added, and the call lets out ValidacionError in place
\* of the AutorizacionError.
C36_DenegadoSinRastro ==
    [][( /\ EsSolicitud
         /\ ~validar_cedula(inv'.cedula)
         /\ inv'.id_area \in DOMAIN areas ) =>
            /\ Original.exc = "AutorizacionError"
            /\ registros' = registros
            /\ accesos' = accesos
            /\ inv'.exc = "ValidacionError"]_vars

\* C37: in every state reached by calls of validar_rfid, validar_pin and
\* solicitar_acceso, one after the other, on credentials and PINs created
\* with no failed attempt: the failed attempts of a credential and of a PIN
\* are between 0 and the maximum of its kind; failed attempts at the maximum
\* mean the credential is BLOQUEADA and the PIN BLOQUEADO; a PIN is
\* BLOQUEADO only with its failed attempts at the maximum, and a credential
\* is BLOQUEADA only with its failed attempts at the maximum.
C37_CuentasAcotadas ==
    /\ \A s \in DOMAIN creds :
          /\ creds[s].intentos_fallidos \in 0..max_intentos_rfid
          /\ creds[s].intentos_fallidos = max_intentos_rfid => creds[s].estado = "BLOQUEADA"
          /\ creds[s].estado = "BLOQUEADA" => creds[s].intentos_fallidos = max_intentos_rfid
    /\ \A k \in DOMAIN pins :
          /\ pins[k].intentos_fallidos \in 0..max_intentos_pin
          /\ pins[k].intentos_fallidos = max_intentos_pin => pins[k].estado = "BLOQUEADO"
          /\ pins[k].estado = "BLOQUEADO" => pins[k].intentos_fallidos = max_intentos_pin

\* The credential R1 has been blocked at its third failed attempt, after a
\* success had set its count back to 0, and a wrong PIN has been presented.
C37_BloqueadaEnElMaximo ==
    /\ creds["R1"].estado = "BLOQUEADA"
    /\ creds["R1"].intentos_fallidos = max_intentos_rfid
    /\ creds["R1"].intentos_exitosos = 1
    /\ inv.op = "validar_pin"
    /\ inv.secuencia = PinErrado

\* The enrolled pattern of U1 has a length E with
\* min(E, N) < 0.9 * max(E, N), N the length the orchestrator captures.
LargoSinSalida ==
    10 * Min(Len(patrones[U1].secuencia_gestos), PatronLen)
        < 9 * Max(Len(patrones[U1].secuencia_gestos), PatronLen)

\* The call ended in the failure state of the request: one of the errors
\* that solicitar_acceso audits and raises again, and no access record.
TerminaDenegado ==
    /\ inv'.exc \in {"AutenticacionError", "AutorizacionError", "IntegracionHardwareError"}
    /\ inv'.ret = <<>>
    /\ accesos' = accesos

PermisoEnRegla(id_permiso) ==
    /\ inv'.id_area \in DOMAIN areas
    /\ EnHorario
    /\ \E i \in PermisosAlDia : permisos[i].id_permiso = id_permiso

====
